---- MODULE Spec2Model ----
\* The user-directory service of src/mongo-docker/app: the users
\* collection, the UserService / SystemService operations on it, the
\* route handlers of routers.py and the middleware stack of main.py.
\*
\* A document is a record [id, name, email, age, status, created_at,
\* updated_at].  Python's None in a string field is the string None; an
\* Optional[int] is a sequence of length 0 (None) or 1.  An Optional
\* result of a service call is a sequence of length 0 (None) or 1.
\* Identifier strings are integers: n >= 1 is the 24-hex string of the
\* n-th ObjectId the store generated, anything below 1 is a string bson
\* rejects ("doesnotexist").  Time is counted in ticks of the precision
\* the store keeps for a datetime.
\*
\* Around the directory: the Database connection manager of database.py
\* and the lifespan of main.py (database, phase, indexes, startup, call),
\* the reachability of the store during one request (fault), and requests
\* in flight at the same time, one store call per step (procs), and the
\* UserService methods called directly, outside any route (service).
\*
\* Beside it, the OAuth2 login demo of src/social-authentication
\* (sessions, accounts, minted, flows, answer, past).  Its tokens are
\* integers: the n-th value secrets.token_urlsafe returned is n.
\*
\* The pattern demonstrations: the MediaPlayer objects of
\* src/state-pattern (players, invoked) and the NPC objects and the
\* NPCPrototypeManager of src/prototype-pattern (heap, prototypes, held,
\* outcome).  An object reference is the object's key in heap.
EXTENDS Integers, Sequences, FiniteSets, TLC

VARIABLES users, nextId, clock, req, resp, deleted,
          database, phase, indexes, startup, call,
          fault, procs, service,
          sessions, accounts, minted, flows, answer, past,
          players, invoked, heap, prototypes, held, outcome

\* the users collection and the request handled last
directory == <<users, nextId, clock, req, resp, deleted>>

\* the connection manager, the application's phase and the store's indexes
lifecycle == <<database, phase, indexes, startup, call>>

\* the login demo: its two dictionaries, the tokens handed out so far, the
\* callbacks in flight, the response sent last and what happened so far
social == <<sessions, accounts, minted, flows, answer, past>>

\* the pattern demonstrations: the media players and the call made last,
\* the NPC objects, the manager's registry, the references the caller
\* holds and the outcome of the call made last
patterns == <<players, invoked, heap, prototypes, held, outcome>>

vars == <<directory, lifecycle, fault, procs, service, social, patterns>>

\* ------------------------------ bounds --------------------------------
\* ids the store hands out, clock ticks, and the page / limit values tried
MaxUsers == 2
MaxClock == 1
MaxPage == 2
MaxLimit == 2
MaxTokens == 3
MaxPlayers == 2
\* NPC objects constructed, and the health and the attack power up to
\* which regenerate and enter_berserker_rage are called
MaxNpcs == 5
MaxHealth == 82
MaxAttack == 35

\* ------------------------------ values --------------------------------
None == "None"
NoAge == << >>
Emails == {"ann@x.com", "bob@x.com"}
Statuses == {"active", "inactive", "suspended"}
Fields == {"name", "email", "age", "status"}

Min(S) == CHOOSE x \in S : \A y \in S : x <= y

\* models.py: the Field constraints of UserBase, re-applied by User(doc)
NameOk(n) == n # None /\ Len(n) >= 1 /\ Len(n) <= 100
EmailOk(e) == e # None /\ Len(e) >= 3
AgeOk(a) == a = NoAge \/ (Len(a) = 1 /\ a[1] >= 0 /\ a[1] <= 150)
StatusOk(s) == s \in Statuses

UserModelOk(doc) ==
    /\ NameOk(doc.name)
    /\ EmailOk(doc.email)
    /\ AgeOk(doc.age)
    /\ StatusOk(doc.status)

\* bson.ObjectId(user_id): raises InvalidId unless a 24-hex string
ObjectIdOk(user_id) == user_id >= 1

\* ------------------------- the store's calls --------------------------
\* the positions of the documents that match {field: value}
Positions(coll, field, value) == {i \in 1..Len(coll) : coll[i][field] = value}

\* collection.find_one({field: value}): the first match in natural order,
\* or None
FindOne(coll, field, value) ==
    LET ps == Positions(coll, field, value)
    IN  IF ps = {} THEN << >> ELSE <<coll[Min(ps)]>>

\* collection.insert_one(doc): appended, under a fresh _id
InsertOne(coll, doc, oid) ==
    Append(coll, [doc EXCEPT !.id = oid])

\* a $set that also restamps created_at with the new updated_at
ApplySet_TouchesCreatedAt(doc, set) ==
    [f \in DOMAIN doc |->
        IF f \in DOMAIN set THEN set[f]
        ELSE IF f = "created_at" /\ "updated_at" \in DOMAIN set
        THEN set["updated_at"]
        ELSE doc[f]]

\* {"$set": update_dict} applied to one document
ApplySet(doc, set) ==
    [f \in DOMAIN doc |-> IF f \in DOMAIN set THEN set[f] ELSE doc[f]]

\* collection.update_one({"_id": oid}, {"$set": set}): the first match is
\* rewritten in place; modified_count is 1 only if the document changed
UpdateOne(coll, oid, set) ==
    LET ps == Positions(coll, "id", oid)
    IN  IF ps = {}
        THEN [coll |-> coll, modified_count |-> 0]
        ELSE LET i == Min(ps)
                 new == ApplySet(coll[i], set)
             IN  [coll |-> [coll EXCEPT ![i] = new],
                  modified_count |-> IF new = coll[i] THEN 0 ELSE 1]

RemoveAt(coll, i) ==
    [k \in 1..(Len(coll) - 1) |-> IF k < i THEN coll[k] ELSE coll[k + 1]]

\* delete_one with a filter that matches every document: the first one goes
DeleteOne_AnyDocument(coll, oid) ==
    IF coll = << >>
    THEN [coll |-> coll, deleted_count |-> 0]
    ELSE [coll |-> RemoveAt(coll, 1), deleted_count |-> 1]

\* collection.delete_one({"_id": oid})
DeleteOne(coll, oid) ==
    LET ps == Positions(coll, "id", oid)
    IN  IF ps = {}
        THEN [coll |-> coll, deleted_count |-> 0]
        ELSE [coll |-> RemoveAt(coll, Min(ps)), deleted_count |-> 1]

\* collection.find().skip(skip).limit(limit)
FindSkipLimit(coll, skip, limit) ==
    LET last == IF skip + limit < Len(coll) THEN skip + limit ELSE Len(coll)
    IN  SubSeq(coll, skip + 1, last)

\* collection.count_documents({})
CountDocuments(coll) == Len(coll)

\* ---------------------------- services.py ----------------------------
\* user_data.model_dump(): the four payload fields
ModelDump(user_data) ==
    [name |-> user_data.name, email |-> user_data.email,
     age |-> user_data.age, status |-> user_data.status]

\* model_dump() without exclude_unset: every field, the unset ones as None
ModelDump_WithUnset(update_data) ==
    [f \in Fields |-> update_data[f]]

\* update_data.model_dump(exclude_unset=True): the fields the request set
ModelDumpExcludeUnset(update_data) ==
    [f \in update_data.fields_set |-> update_data[f]]

\* UserService.create_user: the clock is read twice (t1, then t2)
CreateUser(coll, oid, user_data, t1, t2) ==
    LET user_dict == [id |-> oid,
                      name |-> ModelDump(user_data).name,
                      email |-> ModelDump(user_data).email,
                      age |-> ModelDump(user_data).age,
                      status |-> ModelDump(user_data).status,
                      created_at |-> t1,
                      updated_at |-> t2]
    IN  [coll |-> InsertOne(coll, user_dict, oid), user |-> user_dict]

\* The try block of UserService.get_user_by_id: ObjectId(user_id) raises
\* InvalidId, User(doc) raises ValidationError
GetUserByIdTry(coll, user_id) ==
    IF ~ObjectIdOk(user_id)
    THEN [raised |-> "InvalidId", user |-> << >>]
    ELSE LET user == FindOne(coll, "id", user_id)
         IN  IF user = << >> THEN [raised |-> "", user |-> << >>]
             ELSE IF UserModelOk(user[1]) THEN [raised |-> "", user |-> user]
             ELSE [raised |-> "ValidationError", user |-> << >>]

\* get_user_by_id without its except clause
GetUserById_NoExcept(coll, user_id) ==
    GetUserByIdTry(coll, user_id)

\* UserService.get_user_by_id: except Exception: return None
GetUserById(coll, user_id) ==
    LET tried == GetUserByIdTry(coll, user_id)
    IN  IF tried.raised # ""
        THEN [raised |-> "", user |-> << >>]
        ELSE tried

\* get_user_by_email with a filter on the wrong field: it never matches
GetUserByEmail_WrongField(coll, email) ==
    LET user == FindOne(coll, "name", email)
    IN  IF user = << >> THEN [raised |-> "", user |-> << >>]
        ELSE IF UserModelOk(user[1]) THEN [raised |-> "", user |-> user]
        ELSE [raised |-> "ValidationError", user |-> << >>]

\* UserService.get_user_by_email: no try block, a document that fails the
\* User validation raises
GetUserByEmail(coll, email) ==
    LET user == FindOne(coll, "email", email)
    IN  IF user = << >> THEN [raised |-> "", user |-> << >>]
        ELSE IF UserModelOk(user[1]) THEN [raised |-> "", user |-> user]
        ELSE [raised |-> "ValidationError", user |-> << >>]

\* update_user without the early return for an empty update_dict
UpdateUser_NoEmptyCheck(coll, user_id, update_data, now) ==
    LET update_dict == ModelDumpExcludeUnset(update_data)
    IN  IF ~ObjectIdOk(user_id)
        THEN [raised |-> "InvalidId", coll |-> coll, writes |-> 0, user |-> << >>]
        ELSE LET set == [f \in (DOMAIN update_dict) \cup {"updated_at"} |->
                            IF f = "updated_at" THEN now ELSE update_dict[f]]
                 result == UpdateOne(coll, user_id, set)
             IN  IF result.modified_count > 0
                 THEN [raised |-> GetUserById(result.coll, user_id).raised,
                       coll |-> result.coll, writes |-> 1,
                       user |-> GetUserById(result.coll, user_id).user]
                 ELSE [raised |-> "", coll |-> result.coll, writes |-> 1,
                       user |-> << >>]

\* UserService.update_user; now is the clock value read at line 61
UpdateUser(coll, user_id, update_data, now) ==
    LET update_dict == ModelDumpExcludeUnset(update_data)
    IN  IF DOMAIN update_dict = {}
        THEN [raised |-> GetUserById(coll, user_id).raised, coll |-> coll,
              writes |-> 0, user |-> GetUserById(coll, user_id).user]
        ELSE IF ~ObjectIdOk(user_id)
        THEN [raised |-> "InvalidId", coll |-> coll, writes |-> 0, user |-> << >>]
        ELSE LET set == [f \in (DOMAIN update_dict) \cup {"updated_at"} |->
                            IF f = "updated_at" THEN now ELSE update_dict[f]]
                 result == UpdateOne(coll, user_id, set)
             IN  IF result.modified_count > 0
                 THEN [raised |-> GetUserById(result.coll, user_id).raised,
                       coll |-> result.coll, writes |-> 1,
                       user |-> GetUserById(result.coll, user_id).user]
                 ELSE [raised |-> "", coll |-> result.coll, writes |-> 1,
                       user |-> << >>]

\* UserService.delete_user
DeleteUser(coll, user_id) ==
    IF ~ObjectIdOk(user_id)
    THEN [raised |-> "InvalidId", coll |-> coll, writes |-> 0, success |-> FALSE]
    ELSE LET result == DeleteOne(coll, user_id)
         IN  [raised |-> "", coll |-> result.coll, writes |-> 1,
              success |-> result.deleted_count > 0]

\* UserService.list_users: each document of the page goes through User(doc)
ListUsers(coll, skip, limit) ==
    LET page == FindSkipLimit(coll, skip, limit)
    IN  IF \A i \in 1..Len(page) : UserModelOk(page[i])
        THEN [raised |-> "", users |-> page]
        ELSE [raised |-> "ValidationError", users |-> << >>]

\* UserService.count_users
CountUsers(coll) == CountDocuments(coll)

\* SystemService.health_check: ping_ok is the outcome of db.command('ping').
\* The except branch calls logger.error, and services.py binds no name
\* logger: the branch raises NameError before its return statement.
HealthCheck(ping_ok) ==
    IF ping_ok
    THEN [raised |-> "", status |-> "healthy", database |-> "connected"]
    ELSE [raised |-> "NameError", status |-> "", database |-> ""]

\* ----------------------------- routers.py ----------------------------
NoPagination == [page |-> 0, limit |-> 0, total |-> 0, pages |-> 0]

\* What a route handler ends with: kind "return" (a value, answered with
\* the route's status code), "http" (raise HTTPException) or "raise" (any
\* other exception leaving the handler).
Return(code) ==
    [kind |-> "return", status_code |-> code, detail |-> "", exc |-> "",
     user |-> << >>, users |-> << >>, pagination |-> NoPagination,
     message |-> "", status |-> "", database |-> ""]

HTTPException(code, text) ==
    [Return(code) EXCEPT !.kind = "http", !.detail = text]

Raise(exception) ==
    [Return(0) EXCEPT !.kind = "raise", !.exc = exception]

\* POST /api/users
RouteCreateUser(coll, oid, user_data, t1, t2) ==
    LET existing_user == GetUserByEmail(coll, user_data.email)
    IN  IF existing_user.raised # ""
        THEN [out |-> Raise(existing_user.raised), coll |-> coll, writes |-> 0]
        ELSE IF existing_user.user # << >>
        THEN [out |-> HTTPException(409, "User with this email already exists"),
              coll |-> coll, writes |-> 0]
        ELSE LET created == CreateUser(coll, oid, user_data, t1, t2)
             IN  [out |-> [Return(201) EXCEPT !.user = <<created.user>>],
                  coll |-> created.coll, writes |-> 1]

\* list_users with pages rounded down
RouteListUsers_FloorPages(coll, page, limit) ==
    LET skip == (page - 1) * limit
        listed == ListUsers(coll, skip, limit)
        total == CountUsers(coll)
    IN  IF listed.raised # ""
        THEN Raise(listed.raised)
        ELSE [Return(200) EXCEPT
                !.users = listed.users,
                !.pagination = [page |-> page, limit |-> limit, total |-> total,
                                pages |-> total \div limit]]

\* GET /api/users?page&limit
RouteListUsers(coll, page, limit) ==
    LET skip == (page - 1) * limit
        listed == ListUsers(coll, skip, limit)
        total == CountUsers(coll)
    IN  IF listed.raised # ""
        THEN Raise(listed.raised)
        ELSE [Return(200) EXCEPT
                !.users = listed.users,
                !.pagination = [page |-> page, limit |-> limit, total |-> total,
                                pages |-> (total + limit - 1) \div limit]]

\* GET /api/users/{user_id}
RouteGetUser(coll, user_id) ==
    LET user == GetUserById(coll, user_id)
    IN  IF user.raised # ""
        THEN Raise(user.raised)
        ELSE IF user.user = << >>
        THEN HTTPException(404, "User not found")
        ELSE [Return(200) EXCEPT !.user = user.user]

\* PUT /api/users/{user_id}
RouteUpdateUser(coll, user_id, update_data, now) ==
    LET existing_user == GetUserById(coll, user_id)
    IN  IF existing_user.raised # ""
        THEN [out |-> Raise(existing_user.raised), coll |-> coll, writes |-> 0]
        ELSE IF existing_user.user = << >>
        THEN [out |-> HTTPException(404, "User not found"),
              coll |-> coll, writes |-> 0]
        ELSE LET updated == UpdateUser(coll, user_id, update_data, now)
             IN  IF updated.raised # ""
                 THEN [out |-> Raise(updated.raised),
                       coll |-> updated.coll, writes |-> updated.writes]
                 ELSE IF updated.user = << >>
                 THEN [out |-> HTTPException(500, "Failed to update user"),
                       coll |-> updated.coll, writes |-> updated.writes]
                 ELSE [out |-> [Return(200) EXCEPT !.user = updated.user],
                       coll |-> updated.coll, writes |-> updated.writes]

\* DELETE /api/users/{user_id}
RouteDeleteUser(coll, user_id) ==
    LET existing_user == GetUserById(coll, user_id)
    IN  IF existing_user.raised # ""
        THEN [out |-> Raise(existing_user.raised), coll |-> coll, writes |-> 0]
        ELSE IF existing_user.user = << >>
        THEN [out |-> HTTPException(404, "User not found"),
              coll |-> coll, writes |-> 0]
        ELSE LET done == DeleteUser(coll, user_id)
             IN  IF done.raised # ""
                 THEN [out |-> Raise(done.raised),
                       coll |-> done.coll, writes |-> done.writes]
                 ELSE IF ~done.success
                 THEN [out |-> HTTPException(500, "Failed to delete user"),
                       coll |-> done.coll, writes |-> done.writes]
                 ELSE [out |-> [Return(200) EXCEPT
                                  !.message = "User deleted successfully"],
                       coll |-> done.coll, writes |-> done.writes]

\* a path no route of user_router or system_router matches: the router
\* answers it as an HTTPException(404)
RouteNotFound == HTTPException(404, "Not Found")

\* GET /health
RouteHealthCheck(ping_ok) ==
    LET health_data == HealthCheck(ping_ok)
    IN  IF health_data.raised # ""
        THEN Raise(health_data.raised)
        ELSE IF health_data.status = "healthy"
        THEN [Return(200) EXCEPT !.status = health_data.status,
                                 !.database = health_data.database]
        ELSE HTTPException(503, "Service is unhealthy")

\* ---------------------- main.py and middleware.py ---------------------
\* one logger call of middleware.py: the event and, for "Request
\* completed", the status_code it carries (0: the entry carries none)
Logged(event, status_code) == [event |-> event, status_code |-> status_code]

\* A response on the wire.  by names the stage that built it; exc is the
\* exception still propagating when the request leaves the stack; log
\* holds the entries the middleware logged while the request was handled.
Response(out, stage) ==
    [status_code |-> out.status_code, error |-> "", detail |-> out.detail,
     user |-> out.user, users |-> out.users, pagination |-> out.pagination,
     message |-> out.message, status |-> out.status,
     database |-> out.database, by |-> stage, exc |-> "", log |-> << >>]

\* The routed application under the middleware: a returned value is sent
\* with the route's status code, an HTTPException becomes a response with
\* its status code and {"detail": detail}; anything else keeps propagating.
RoutedApp(out) ==
    IF out.kind = "return" THEN [raised |-> "", response |-> Response(out, "route")]
    ELSE IF out.kind = "http"
    THEN [raised |-> "", response |-> Response(out, "HTTPException")]
    ELSE [raised |-> out.exc, response |-> Response(Return(0), "")]

\* LoggingMiddleware.dispatch: logs "Request started", awaits call_next,
\* logs "Request completed" with the response's status code.  It catches
\* nothing: when call_next raises, the lines after it never run.
LoggingDispatch(inner) ==
    LET started == <<Logged("Request started", 0)>> \o inner.response.log
    IN  IF inner.raised = ""
        THEN [inner EXCEPT !.response.log =
                 Append(started, Logged("Request completed",
                                        inner.response.status_code))]
        ELSE [inner EXCEPT !.response.log = started]

\* dispatch without its try block
ErrorHandlingDispatch_NoTry(inner) == inner

\* ErrorHandlingMiddleware.dispatch
ErrorHandlingDispatch(inner) ==
    IF inner.raised = ""
    THEN inner
    ELSE [raised |-> "",
          response |-> [Response(Return(500), "ErrorHandlingMiddleware") EXCEPT
                          !.error = "Internal server error",
                          !.detail = "An unexpected error occurred",
                          !.log = Append(inner.response.log,
                                         Logged("Unhandled exception", 0))]]

\* create_app: add_middleware puts the stage added last outermost
App(out) ==
    LET answered == ErrorHandlingDispatch(LoggingDispatch(RoutedApp(out)))
    IN  [answered.response EXCEPT !.exc = answered.raised]

\* ------------------- requests over an unreachable store --------------
\* what a store call raises once the store is unreachable
StoreFault == "ServerSelectionTimeoutError"

\* the number of store calls of a request that succeed before the store
\* becomes unreachable; no route issues more than three
Ups == 0..2

\* a request that met the fault at its calls-th store call
Faulted(out, coll, writes, calls) ==
    [out |-> out, coll |-> coll, writes |-> writes, calls |-> calls,
     hit |-> TRUE]

\* a request that ended before the store became unreachable
Unfaulted(out, coll, writes) ==
    [out |-> out, coll |-> coll, writes |-> writes, calls |-> 0,
     hit |-> FALSE]

\* the try block of get_user_by_id when find_one raises
GetUserByIdTryDown(user_id) ==
    IF ~ObjectIdOk(user_id)
    THEN [raised |-> "InvalidId", user |-> << >>]
    ELSE [raised |-> StoreFault, user |-> << >>]

\* get_user_by_id over an unreachable store: except Exception: return None
GetUserByIdDown(user_id) ==
    LET tried == GetUserByIdTryDown(user_id)
    IN  IF tried.raised # ""
        THEN [raised |-> "", user |-> << >>]
        ELSE tried

\* update_user over an unreachable store: the empty patch returns what
\* get_user_by_id returns, any other patch lets update_one raise
UpdateUserDown(user_id, update_data) ==
    LET update_dict == ModelDumpExcludeUnset(update_data)
    IN  IF DOMAIN update_dict = {}
        THEN GetUserByIdDown(user_id)
        ELSE IF ~ObjectIdOk(user_id)
        THEN [raised |-> "InvalidId", user |-> << >>]
        ELSE [raised |-> StoreFault, user |-> << >>]

\* POST /api/users: find_one (get_user_by_email), then insert_one
RouteCreateUserFault(coll, oid, user_data, t1, t2, up) ==
    LET existing_user == GetUserByEmail(coll, user_data.email)
        reached == RouteCreateUser(coll, oid, user_data, t1, t2)
    IN  IF up = 0
        THEN Faulted(Raise(StoreFault), coll, 0, 1)
        ELSE IF up = 1 /\ existing_user.raised = "" /\ existing_user.user = << >>
        THEN Faulted(Raise(StoreFault), coll, 0, 2)
        ELSE Unfaulted(reached.out, reached.coll, reached.writes)

\* GET /api/users/{user_id}: find_one (get_user_by_id)
RouteGetUserFault(coll, user_id, up) ==
    LET user == GetUserByIdDown(user_id)
    IN  IF up = 0 /\ ObjectIdOk(user_id)
        THEN Faulted(IF user.raised # "" THEN Raise(user.raised)
                     ELSE IF user.user = << >>
                     THEN HTTPException(404, "User not found")
                     ELSE [Return(200) EXCEPT !.user = user.user],
                     coll, 0, 1)
        ELSE Unfaulted(RouteGetUser(coll, user_id), coll, 0)

\* PUT /api/users/{user_id}: find_one (get_user_by_id), then update_one and
\* find_one (update_user)
RouteUpdateUserFault(coll, user_id, update_data, now, up) ==
    LET existing_user == GetUserById(coll, user_id)
        updated == UpdateUserDown(user_id, update_data)
        written == UpdateUser(coll, user_id, update_data, now)
        reached == RouteUpdateUser(coll, user_id, update_data, now)
    IN  IF up = 0 /\ ObjectIdOk(user_id)
        THEN Faulted(IF GetUserByIdDown(user_id).user = << >>
                     THEN HTTPException(404, "User not found")
                     ELSE Return(200),
                     coll, 0, 1)
        ELSE IF up = 1 /\ existing_user.user # << >>
        THEN Faulted(IF updated.raised # "" THEN Raise(updated.raised)
                     ELSE IF updated.user = << >>
                     THEN HTTPException(500, "Failed to update user")
                     ELSE [Return(200) EXCEPT !.user = updated.user],
                     coll, 0, 2)
        ELSE IF /\ up = 2
                /\ existing_user.user # << >>
                /\ update_data.fields_set # {}
                /\ written.coll # coll
        THEN Faulted(IF GetUserByIdDown(user_id).user = << >>
                     THEN HTTPException(500, "Failed to update user")
                     ELSE Return(200),
                     written.coll, 1, 3)
        ELSE Unfaulted(reached.out, reached.coll, reached.writes)

\* DELETE /api/users/{user_id}: find_one (get_user_by_id), then delete_one
RouteDeleteUserFault(coll, user_id, up) ==
    LET existing_user == GetUserById(coll, user_id)
        reached == RouteDeleteUser(coll, user_id)
    IN  IF up = 0 /\ ObjectIdOk(user_id)
        THEN Faulted(IF GetUserByIdDown(user_id).user = << >>
                     THEN HTTPException(404, "User not found")
                     ELSE Return(200),
                     coll, 0, 1)
        ELSE IF up = 1 /\ existing_user.user # << >>
        THEN Faulted(Raise(StoreFault), coll, 0, 2)
        ELSE Unfaulted(reached.out, reached.coll, reached.writes)

\* GET /api/users: find (list_users), then count_documents (count_users)
RouteListUsersFault(coll, page, limit, up) ==
    LET listed == ListUsers(coll, (page - 1) * limit, limit)
    IN  IF up = 0
        THEN Faulted(Raise(StoreFault), coll, 0, 1)
        ELSE IF up = 1 /\ listed.raised = ""
        THEN Faulted(Raise(StoreFault), coll, 0, 2)
        ELSE Unfaulted(RouteListUsers(coll, page, limit), coll, 0)

\* ----------------------- database.py and lifespan ---------------------
\* the indexes _create_indexes provisions, in the order of its calls
Indexes ==
    <<"users.email unique", "users.created_at", "users.status,created_at",
      "sessions.session_id unique", "sessions.user_id", "sessions.expires_at">>

\* Database.__init__: no client and no database handle
NoConnection == [client |-> None, db |-> None, closed |-> FALSE]

\* _create_indexes without its try block
CreateIndexes_NoTry(failing) ==
    LET fails == failing \in 1..Len(Indexes)
        last == IF fails THEN failing - 1 ELSE Len(Indexes)
    IN  [raised |-> IF fails THEN "OperationFailure" ELSE "",
         created |-> {Indexes[i] : i \in 1..last},
         warned |-> FALSE]

\* Database._create_indexes: failing is the position of the create_index
\* call that raises (0: none does).  The calls before it took effect, the
\* ones after it are skipped, and the exception ends in logger.warning.
CreateIndexes(failing) ==
    LET fails == failing \in 1..Len(Indexes)
        last == IF fails THEN failing - 1 ELSE Len(Indexes)
    IN  [raised |-> "",
         created |-> {Indexes[i] : i \in 1..last},
         warned |-> fails]

\* Database.connect: client_ok says whether the client construction and
\* get_database() succeed, ping_ok whether the ping does.  The attributes
\* are assigned before the ping; every exception is logged and re-raised.
Connect(manager, client_ok, ping_ok, failing) ==
    IF ~client_ok
    THEN [raised |-> "ConfigurationError", database |-> manager,
          created |-> {}, warned |-> FALSE]
    ELSE LET opened == [client |-> "AsyncIOMotorClient",
                        db |-> "AsyncIOMotorDatabase", closed |-> FALSE]
         IN  IF ~ping_ok
             THEN [raised |-> "ServerSelectionTimeoutError",
                   database |-> opened, created |-> {}, warned |-> FALSE]
             ELSE [raised |-> CreateIndexes(failing).raised,
                   database |-> opened,
                   created |-> CreateIndexes(failing).created,
                   warned |-> CreateIndexes(failing).warned]

\* disconnect without the test of self.client
Disconnect_NoGuard(manager) ==
    IF manager.client = None
    THEN [raised |-> "AttributeError", database |-> manager]
    ELSE [raised |-> "", database |-> [manager EXCEPT !.closed = TRUE]]

\* Database.disconnect: closes the client if there is one; the attributes
\* keep their values
Disconnect(manager) ==
    IF manager.client # None
    THEN [raised |-> "", database |-> [manager EXCEPT !.closed = TRUE]]
    ELSE [raised |-> "", database |-> manager]

\* get_database: connects first when the manager holds no handle
GetDatabase(manager, client_ok, ping_ok, failing) ==
    IF manager.db = None
    THEN [raised |-> Connect(manager, client_ok, ping_ok, failing).raised,
          database |-> Connect(manager, client_ok, ping_ok, failing).database]
    ELSE [raised |-> "", database |-> manager]

\* the startup half of lifespan that goes on serving after a failure
LifespanStartup_NoExit(connected) == "serving"

\* The startup half of lifespan: the phase the application is in after
\* connect_database(); an exception ends in sys.exit(1).
LifespanStartup(connected) ==
    IF connected.raised # "" THEN "exited" ELSE "serving"

\* the startup attempt: its inputs and what connect did
NoStartup ==
    [attempted |-> FALSE, client_ok |-> TRUE, ping_ok |-> TRUE, failing |-> 0,
     warned |-> FALSE, raised |-> ""]

Attempted(client_ok, ping_ok, failing, connected) ==
    [attempted |-> TRUE, client_ok |-> client_ok, ping_ok |-> ping_ok,
     failing |-> failing, warned |-> connected.warned,
     raised |-> connected.raised]

\* the function of database.py called last by the lifespan or from outside
Called(fn, raised) == [fn |-> fn, raised |-> raised]

\* the store reachable through the whole request
NoFault == [up |-> 0, hit |-> FALSE, calls |-> 0]

\* ------------------------- the store's indexes ------------------------
\* insert_one over a store that enforces unique emails whatever indexes exist
InsertOneIndexed_AlwaysUnique(coll, idx, doc, oid) ==
    IF Positions(coll, "email", doc.email) # {}
    THEN [raised |-> "DuplicateKeyError", coll |-> coll]
    ELSE [raised |-> "", coll |-> InsertOne(coll, doc, oid)]

\* insert_one under the indexes idx: the unique index on email rejects a
\* document whose email a stored document holds
InsertOneIndexed(coll, idx, doc, oid) ==
    IF Indexes[1] \in idx /\ Positions(coll, "email", doc.email) # {}
    THEN [raised |-> "DuplicateKeyError", coll |-> coll]
    ELSE [raised |-> "", coll |-> InsertOne(coll, doc, oid)]

\* UserService.create_user over a store with the indexes idx: insert_one
\* is outside any try
CreateUserIndexed(coll, idx, oid, user_data, t1, t2) ==
    LET created == CreateUser(coll, oid, user_data, t1, t2)
        inserted == InsertOneIndexed(coll, idx, created.user, oid)
    IN  IF inserted.raised # ""
        THEN [raised |-> inserted.raised, coll |-> coll, user |-> << >>]
        ELSE [raised |-> "", coll |-> inserted.coll, user |-> <<created.user>>]

\* ------------------------------ requests ------------------------------
\* UserCreate payloads that passed validation
UserCreates ==
    [name : {"Ann"}, email : Emails, age : {<<30>>}, status : {"active"}]

\* A validated UserUpdate: every field defaults to None, fields_set holds
\* the fields the request body named (an explicit null included)
UserUpdate(fields_set, name, email, age, status) ==
    [name |-> name, email |-> email, age |-> age, status |-> status,
     fields_set |-> fields_set]

EmptyUpdate == UserUpdate({}, None, None, NoAge, None)

UserUpdates ==
    {EmptyUpdate}
    \cup {UserUpdate({"status"}, None, None, NoAge, s) : s \in {"active", "suspended"}}
    \cup {UserUpdate({"email"}, None, e, NoAge, None) : e \in Emails}
    \cup {UserUpdate({"name", "age"}, "Bob", None, NoAge, None)}
    \cup {UserUpdate({"name"}, None, None, NoAge, None)}

\* path parameters: 0 is a string that is no ObjectId
UserIds == 0..MaxUsers

NoUserData == [name |-> "", email |-> "", age |-> NoAge, status |-> ""]

\* The request handled last: its inputs, the number of store writes it
\* issued, and how its route handler ended (out.kind, out.exc)
Request(op) ==
    [op |-> op, user_id |-> 0, user_data |-> NoUserData,
     update_data |-> EmptyUpdate, page |-> 0, limit |-> 0, ping_ok |-> TRUE,
     writes |-> 0, ended |-> "", exc |-> ""]

Handled(request, out, writes) ==
    [request EXCEPT !.writes = writes, !.ended = out.kind, !.exc = out.exc]

NoResponse == Response(Return(0), "")

\* the requests in flight: one process per request being handled
Procs == {1, 2}

\* a process that handles no request
Idle ==
    [pc |-> "idle", op |-> "", user_id |-> 0, user_data |-> NoUserData,
     update_data |-> EmptyUpdate, now |-> 0, result |-> << >>,
     page |-> 0, limit |-> 0, users |-> << >>,
     with |-> {}, existed |-> FALSE, resp |-> NoResponse]

\* No UserService method was called directly.  A call is recorded with its
\* arguments, what it raised or returned, and the collection before and
\* after it.
NoCall ==
    [fn |-> "", user_id |-> 0, update_data |-> EmptyUpdate, raised |-> "",
     user |-> << >>, success |-> FALSE, before |-> << >>, after |-> << >>]

\* ----------------------- simple_social_auth.py ------------------------
\* the providers that have an entry in CONFIGS
CONFIGS == {"google", "github"}

\* the path parameter provider: the configured ones and one that is not
Providers == CONFIGS \cup {"facebook"}

\* f"{provider}_{user_info['id']}" for the one account each provider knows
UserId(provider) ==
    IF provider = "google" THEN "google_1"
    ELSE IF provider = "github" THEN "github_1"
    ELSE "facebook_1"

\* d[key] = value on a dictionary
SetItem(d, key, value) ==
    [k \in (DOMAIN d) \cup {key} |-> IF k = key THEN value ELSE d[k]]

\* del d[key] on a dictionary that holds key
DelItem(d, key) == [k \in (DOMAIN d) \ {key} |-> d[k]]

\* what a handler of the login demo is answered with; 500 is the answer
\* to an exception other than HTTPException
Reply(code, text) ==
    [status_code |-> code, detail |-> text, state |-> 0, access_token |-> 0,
     user |-> << >>, message |-> ""]

\* the request handled last by get_auth_url, get_current_user or logout
Asked(op, provider, token, reply) ==
    [op |-> op, provider |-> provider, token |-> token, reply |-> reply]

\* get_auth_url: state is the value secrets.token_urlsafe(16) returns
GetAuthUrl(sess, provider, state) ==
    IF provider \notin CONFIGS
    THEN [sessions |-> sess, reply |-> Reply(404, "Provider not supported")]
    ELSE [sessions |-> SetItem(sess, state, provider),
          reply |-> [Reply(200, "") EXCEPT !.state = state]]

\* handle_callback up to its first await: the two checks, then the POST
\* to token_url is on its way
CallbackChecks(sess, provider, state) ==
    IF provider \notin CONFIGS
    THEN [passed |-> FALSE, reply |-> Reply(404, "Provider not supported")]
    ELSE IF state \notin DOMAIN sess
    THEN [passed |-> FALSE, reply |-> Reply(400, "Invalid state")]
    ELSE [passed |-> TRUE, reply |-> Reply(0, "")]

\* handle_callback that leaves the state in sessions
CleanUpState_Keep(sess, state) ==
    [raised |-> "", sessions |-> sess]

\* "Clean up state": del sessions[state] raises KeyError if state is gone
CleanUpState(sess, state) ==
    IF state \in DOMAIN sess
    THEN [raised |-> "", sessions |-> DelItem(sess, state)]
    ELSE [raised |-> "KeyError", sessions |-> sess]

\* handle_callback from the user info on: email is "" when the provider
\* sent none, session_token is the value secrets.token_urlsafe(32) returns
CallbackFinish(sess, accts, provider, state, email, session_token) ==
    IF email = ""
    THEN [sessions |-> sess, users |-> accts, granted |-> FALSE,
          reply |-> Reply(400, "Email not provided")]
    ELSE LET user_id == UserId(provider)
             known == IF user_id \in DOMAIN accts THEN accts
                      ELSE SetItem(accts, user_id,
                                   [id |-> user_id, email |-> email,
                                    name |-> "", provider |-> provider])
             stored == SetItem(sess, session_token, user_id)
             cleaned == CleanUpState(stored, state)
         IN  IF cleaned.raised # ""
             THEN [sessions |-> cleaned.sessions, users |-> known,
                   granted |-> TRUE,
                   reply |-> Reply(500, "Internal Server Error")]
             ELSE [sessions |-> cleaned.sessions, users |-> known,
                   granted |-> TRUE,
                   reply |-> [Reply(200, "") EXCEPT
                                !.access_token = session_token,
                                !.user = <<known[user_id]>>]]

\* get_current_user: bearer says whether the Authorization value starts
\* with "Bearer ", token is what follows it
GetCurrentUser(sess, accts, bearer, token) ==
    IF ~bearer THEN Reply(401, "No token provided")
    ELSE IF token \notin DOMAIN sess THEN Reply(401, "Invalid token")
    ELSE IF sess[token] \notin DOMAIN accts THEN Reply(401, "User not found")
    ELSE [Reply(200, "") EXCEPT !.user = <<accts[sess[token]]>>]

\* logout that forgets to drop the token
Logout_KeepsToken(sess, bearer, token) ==
    IF ~bearer
    THEN [sessions |-> sess, reply |-> Reply(401, "No token provided")]
    ELSE [sessions |-> sess,
          reply |-> [Reply(200, "") EXCEPT !.message = "Logged out"]]

\* logout
Logout(sess, bearer, token) ==
    IF ~bearer
    THEN [sessions |-> sess, reply |-> Reply(401, "No token provided")]
    ELSE [sessions |-> IF token \in DOMAIN sess THEN DelItem(sess, token)
                       ELSE sess,
          reply |-> [Reply(200, "") EXCEPT !.message = "Logged out"]]

\* the handle_callback coroutines in flight
Flows == {1, 2}

\* A handle_callback coroutine that has not started.  A started one keeps
\* its arguments, whether state was in sessions when it arrived (known),
\* whether a successful callback had consumed state before (late), and
\* whether its POST to token_url was sent (exchanged).
NoFlow ==
    [pc |-> "idle", provider |-> "", state |-> 0, known |-> FALSE,
     late |-> FALSE, exchanged |-> FALSE, reply |-> Reply(0, "")]

\* What happened so far: the states get_auth_url issued, with their
\* provider, the session tokens handle_callback stored, the states of the
\* callbacks answered 200, in order, the tokens logout was called with,
\* and the access_token values callbacks returned, with the id of the
\* user they returned
NoPast ==
    [issued |-> {}, granted |-> {}, succeeded |-> << >>, logged_out |-> {},
     returned |-> {}]

\* --------------------------- the state machine ------------------------
\* an empty collection, no request handled yet
InitDirectory ==
    /\ users = << >>
    /\ nextId = 1
    /\ clock = 0
    /\ req = Request("none")
    /\ resp = NoResponse
    /\ deleted = {}
    /\ fault = NoFault
    /\ procs = [p \in Procs |-> Idle]

\* --------------------------- media_player.py --------------------------
\* the concrete State classes; a state object has no attributes, so it is
\* its class
States == {"StoppedState", "PlayingState", "PausedState"}

\* MediaPlayer.__init__
MediaPlayer ==
    [current_state |-> "StoppedState", current_track |-> "Unknown Track"]

\* what a method call leaves: the player and the lines it printed
Left(player, printed) == [player |-> player, printed |-> printed]

\* MediaPlayer.set_state
SetState(player, new_state, printed) ==
    Left([player EXCEPT !.current_state = new_state],
         printed \o <<"State changed to: " \o new_state>>)

PlayingStatePlay(player) == Left(player, <<"Already playing!">>)

PlayingStatePause(player) == SetState(player, "PausedState", <<"Pausing...">>)

PlayingStateStop(player) == SetState(player, "StoppedState", <<"Stopping...">>)

PausedStatePlay(player) == SetState(player, "PlayingState", <<"Resuming...">>)

PausedStatePause(player) == Left(player, <<"Already paused!">>)

PausedStateStop(player) == SetState(player, "StoppedState", <<"Stopping...">>)

StoppedStatePlay(player) ==
    SetState(player, "PlayingState", <<"Starting playback...">>)

\* a StoppedState whose pause pauses
StoppedStatePause_Pauses(player) ==
    SetState(player, "PausedState", <<"Pausing...">>)

StoppedStatePause(player) == Left(player, <<"Cannot pause - not playing!">>)

StoppedStateStop(player) == Left(player, <<"Already stopped!">>)

\* MediaPlayer.play / pause / stop: delegated to the current state object
PlayerPlay(player) ==
    CASE player.current_state = "PlayingState" -> PlayingStatePlay(player)
      [] player.current_state = "PausedState" -> PausedStatePlay(player)
      [] player.current_state = "StoppedState" -> StoppedStatePlay(player)

PlayerPause(player) ==
    CASE player.current_state = "PlayingState" -> PlayingStatePause(player)
      [] player.current_state = "PausedState" -> PausedStatePause(player)
      [] player.current_state = "StoppedState" -> StoppedStatePause(player)

PlayerStop(player) ==
    CASE player.current_state = "PlayingState" -> PlayingStateStop(player)
      [] player.current_state = "PausedState" -> PausedStateStop(player)
      [] player.current_state = "StoppedState" -> StoppedStateStop(player)

\* MediaPlayer.set_track
PlayerSetTrack(player, track_name) ==
    Left([player EXCEPT !.current_track = track_name],
         <<"Track set to: " \o track_name>>)

\* the track names passed to set_track
Tracks == {"My Favorite Song", "Another Song"}

\* the method call made last: on which player, which method, what it
\* printed
Invoked(i, method, printed) ==
    [player |-> i, method |-> method, printed |-> printed]

\* the media players constructed, no method called yet
InitPlayers ==
    /\ players = [i \in 1..MaxPlayers |-> MediaPlayer]
    /\ invoked = Invoked(0, "", << >>)

\* --------------------------- the NPC prototypes -----------------------
\* A name is the sequence of its parts: the string given to the
\* constructor, then one object identity per clone() that led to the
\* object.  critical_chance is kept in percent.

\* Zombie.__init__ after NPC.__init__
Zombie(name, health, attack_power, speed) ==
    [class |-> "Zombie", name |-> name, health |-> health,
     attack_power |-> attack_power, speed |-> speed, position |-> <<0, 0>>,
     is_alive |-> TRUE, undead |-> TRUE, regeneration |-> 2]

\* Goblin.__init__ after NPC.__init__
Goblin(name, health, attack_power, speed) ==
    [class |-> "Goblin", name |-> name, health |-> health,
     attack_power |-> attack_power, speed |-> speed, position |-> <<0, 0>>,
     is_alive |-> TRUE, stealth |-> TRUE, critical_chance |-> 20]

\* Orc.__init__ after NPC.__init__
Orc(name, health, attack_power, speed) ==
    [class |-> "Orc", name |-> name, health |-> health,
     attack_power |-> attack_power, speed |-> speed, position |-> <<0, 0>>,
     is_alive |-> TRUE, berserker_rage |-> FALSE, rage_damage_bonus |-> 10]

\* NPC.take_damage on the object self of the heap h, without the floor at 0
take_damage_NoFloor(h, self, damage) ==
    [h EXCEPT ![self].health = h[self].health - damage]

\* NPC.take_damage on the object self of the heap h
take_damage(h, self, damage) ==
    LET health == h[self].health - damage
    IN  IF health <= 0
        THEN [h EXCEPT ![self].health = 0, ![self].is_alive = FALSE]
        ELSE [h EXCEPT ![self].health = health]

\* NPC.attack
attack(h, self, target) ==
    IF h[self].is_alive /\ h[target].is_alive
    THEN take_damage(h, target, h[self].attack_power)
    ELSE h

\* NPC.move
move(h, self, x, y) == [h EXCEPT ![self].position = <<x, y>>]

\* Zombie.regenerate
regenerate(h, self) ==
    IF h[self].is_alive
    THEN [h EXCEPT ![self].health = h[self].health + h[self].regeneration]
    ELSE h

\* int(n * 1.5): the product is exact, int() truncates towards zero
IntOneAndAHalf(n) == IF n >= 0 THEN (3 * n) \div 2 ELSE 0 - ((3 * (0 - n)) \div 2)

\* Goblin.sneak_attack
sneak_attack(h, self, target) ==
    IF h[self].is_alive /\ h[target].is_alive
    THEN take_damage(h, target, IntOneAndAHalf(h[self].attack_power))
    ELSE h

\* Orc.enter_berserker_rage
enter_berserker_rage(h, self) ==
    [h EXCEPT ![self].berserker_rage = TRUE,
              ![self].attack_power = h[self].attack_power
                                       + h[self].rage_damage_bonus]

\* a clone() that renames and returns the object it was called on
clone_SameObject(h, self) ==
    [heap |-> [h EXCEPT ![self].name = Append(h[self].name, self)],
     cloned |-> self]

\* Zombie.clone, Goblin.clone, Orc.clone: copy.deepcopy makes a new object
\* with a copy of every attribute, then the copy is renamed after its own
\* identity
clone(h, self) ==
    LET cloned == Len(h) + 1
    IN  [heap |-> Append(h, [h[self] EXCEPT !.name = Append(h[self].name, cloned)]),
         cloned |-> cloned]

\* NPCPrototypeManager._initialize_prototypes: the three objects it
\* constructs and the registry that refers to them
InitialHeap ==
    <<Zombie(<<"Zombie_Prototype">>, 80, 15, 5),
      Goblin(<<"Goblin_Prototype">>, 50, 12, 8),
      Orc(<<"Orc_Prototype">>, 120, 25, 3)>>

InitialPrototypes ==
    [npc_type \in {"zombie", "goblin", "orc"} |->
        CASE npc_type = "zombie" -> 1
          [] npc_type = "goblin" -> 2
          [] npc_type = "orc" -> 3]

\* what a manager call raised ("" when it returned), the heap it left and
\* the object it returned (0: none)
Raised(h, exception) == [raised |-> exception, heap |-> h, npc |-> 0]

\* NPCPrototypeManager.create_npc
create_npc(h, registry, npc_type) ==
    IF npc_type \notin DOMAIN registry
    THEN Raised(h, "ValueError")
    ELSE LET c == clone(h, registry[npc_type])
         IN  [raised |-> "", heap |-> c.heap, npc |-> c.cloned]

\* NPCPrototypeManager.add_prototype
add_prototype(registry, npc_type, prototype) ==
    SetItem(registry, npc_type, prototype)

\* a remove_prototype that deletes nothing
remove_prototype_Keeps(registry, npc_type) == registry

\* NPCPrototypeManager.remove_prototype
remove_prototype(registry, npc_type) ==
    IF npc_type \in DOMAIN registry THEN DelItem(registry, npc_type)
    ELSE registry

\* the type names passed to the manager
NpcTypes == {"zombie", "goblin", "orc", "dragon"}

\* the damage passed to take_damage and the place passed to move
Damages == {0, 50}
Places == {<<25, 10>>}

\* the call made last: which method, with which type name, on which object
\* and target, what it raised and which object it returned; removed is the
\* set of type names removed and not added since
Outcome(fn, npc_type, self, target, raised, npc, removed) ==
    [fn |-> fn, npc_type |-> npc_type, self |-> self, target |-> target,
     raised |-> raised, npc |-> npc, removed |-> removed]

\* npc_manager = NPCPrototypeManager(); the caller holds no NPC yet
InitNpcs ==
    /\ heap = InitialHeap
    /\ prototypes = InitialPrototypes
    /\ held = {}
    /\ outcome = Outcome("", "", 0, 0, "", 0, {})

\* the login demo after import: both dictionaries empty
InitSocial ==
    /\ sessions = << >>
    /\ accounts = << >>
    /\ minted = 0
    /\ flows = [c \in Flows |-> NoFlow]
    /\ answer = Asked("", "", 0, Reply(0, ""))
    /\ past = NoPast

\* nothing but the directory has run
InitOutside ==
    /\ service = NoCall
    /\ InitSocial
    /\ InitPlayers
    /\ InitNpcs

\* the application after a startup whose create_index call at position
\* failing raised (0: none): connected and serving
InitServing(failing) ==
    LET connected == Connect(NoConnection, TRUE, TRUE, failing)
    IN  /\ database = connected.database
        /\ indexes = connected.created
        /\ phase = LifespanStartup(connected)
        /\ startup = Attempted(TRUE, TRUE, failing, connected)
        /\ call = Called("connect_database", connected.raised)

\* serving over a store that has no unique index on email
Init ==
    /\ InitDirectory
    /\ InitServing(1)
    /\ InitOutside

\* A route handler runs while the application serves, with the handle its
\* get_database dependency returns: the one the manager holds, for which
\* no connection attempt is needed (here one would fail)
Serving ==
    /\ phase = "serving"
    /\ GetDatabase(database, FALSE, FALSE, 0)
          = [raised |-> "", database |-> database]

\* the wall clock advances between requests
Tick ==
    /\ clock < MaxClock
    /\ clock' = clock + 1
    /\ req' = Request("tick")
    /\ resp' = NoResponse
    /\ fault' = NoFault
    /\ UNCHANGED <<users, nextId, deleted, lifecycle, procs, service, social, patterns>>

\* POST /api/users; the clock may advance by d between the two utcnow() reads
Create(user_data, d) ==
    LET r == RouteCreateUser(users, nextId, user_data, clock, clock + d)
    IN  /\ Serving
        /\ clock + d <= MaxClock
        /\ r.writes = 0 => d = 0
        /\ r.writes > 0 => nextId <= MaxUsers
        /\ users' = r.coll
        /\ nextId' = nextId + r.writes
        /\ clock' = clock + d
        /\ req' = Handled([Request("create") EXCEPT !.user_data = user_data],
                           r.out, r.writes)
        /\ resp' = App(r.out)
        /\ fault' = NoFault
        /\ UNCHANGED <<deleted, lifecycle, procs, service, social, patterns>>

\* GET /api/users/{user_id}
Get(user_id) ==
    /\ Serving
    /\ req' = Handled([Request("get") EXCEPT !.user_id = user_id],
                       RouteGetUser(users, user_id), 0)
    /\ resp' = App(RouteGetUser(users, user_id))
    /\ fault' = NoFault
    /\ UNCHANGED <<users, nextId, clock, deleted, lifecycle, procs, service, social, patterns>>

\* PUT /api/users/{user_id}
Put(user_id, update_data) ==
    LET r == RouteUpdateUser(users, user_id, update_data, clock)
    IN  /\ Serving
        /\ users' = r.coll
        /\ req' = Handled([Request("put") EXCEPT !.user_id = user_id,
                                                  !.update_data = update_data],
                           r.out, r.writes)
        /\ resp' = App(r.out)
        /\ fault' = NoFault
        /\ UNCHANGED <<nextId, clock, deleted, lifecycle, procs, service, social, patterns>>

\* DELETE /api/users/{user_id}
Delete(user_id) ==
    LET r == RouteDeleteUser(users, user_id)
    IN  /\ Serving
        /\ users' = r.coll
        /\ req' = Handled([Request("delete") EXCEPT !.user_id = user_id],
                           r.out, r.writes)
        /\ resp' = App(r.out)
        /\ deleted' = IF App(r.out).status_code = 200
                      THEN deleted \cup {user_id} ELSE deleted
        /\ fault' = NoFault
        /\ UNCHANGED <<nextId, clock, lifecycle, procs, service, social, patterns>>

\* GET /api/users?page&limit
List(page, limit) ==
    /\ Serving
    /\ req' = Handled([Request("list") EXCEPT !.page = page, !.limit = limit],
                       RouteListUsers(users, page, limit), 0)
    /\ resp' = App(RouteListUsers(users, page, limit))
    /\ fault' = NoFault
    /\ UNCHANGED <<users, nextId, clock, deleted, lifecycle, procs, service, social, patterns>>

\* GET /health
Health(ping_ok) ==
    /\ Serving
    /\ req' = Handled([Request("health") EXCEPT !.ping_ok = ping_ok],
                       RouteHealthCheck(ping_ok), 0)
    /\ resp' = App(RouteHealthCheck(ping_ok))
    /\ fault' = NoFault
    /\ UNCHANGED <<users, nextId, clock, deleted, lifecycle, procs, service, social, patterns>>

\* a request to a path that has no route
NoRoute ==
    /\ Serving
    /\ req' = Handled(Request("noroute"), RouteNotFound, 0)
    /\ resp' = App(RouteNotFound)
    /\ fault' = NoFault
    /\ UNCHANGED <<users, nextId, clock, deleted, lifecycle, procs, service, social, patterns>>

Next ==
    \/ Tick
    \/ \E user_data \in UserCreates, d \in {0, 1} : Create(user_data, d)
    \/ \E user_id \in UserIds : Get(user_id)
    \/ \E user_id \in UserIds, update_data \in UserUpdates : Put(user_id, update_data)
    \/ \E user_id \in UserIds : Delete(user_id)
    \/ \E page \in 1..MaxPage, limit \in 1..MaxLimit : List(page, limit)
    \/ \E ping_ok \in BOOLEAN : Health(ping_ok)
    \/ NoRoute

Spec == Init /\ [][Next]_vars

\* create requests and reads only: the store changes through POST alone
NextCreate ==
    \/ Tick
    \/ \E user_data \in UserCreates, d \in {0, 1} : Create(user_data, d)
    \/ \E user_id \in UserIds : Get(user_id)
    \/ \E page \in 1..MaxPage, limit \in 1..MaxLimit : List(page, limit)

SpecCreate == Init /\ [][NextCreate]_vars

\* ----------------------- the store becomes unreachable -----------------
\* the fault a request met: the store calls that had succeeded (up) and
\* the number of store calls the request attempted
Met(up, r) == [up |-> up, hit |-> r.hit, calls |-> r.calls]

\* POST /api/users with the store unreachable after up store calls
CreateFault(user_data, up) ==
    LET r == RouteCreateUserFault(users, nextId, user_data, clock, clock, up)
    IN  /\ Serving
        /\ r.hit
        /\ users' = r.coll
        /\ req' = Handled([Request("create") EXCEPT !.user_data = user_data],
                           r.out, r.writes)
        /\ resp' = App(r.out)
        /\ fault' = Met(up, r)
        /\ UNCHANGED <<nextId, clock, deleted, lifecycle, procs, service, social, patterns>>

\* GET /api/users/{user_id} with the store unreachable
GetFault(user_id, up) ==
    LET r == RouteGetUserFault(users, user_id, up)
    IN  /\ Serving
        /\ r.hit
        /\ req' = Handled([Request("get") EXCEPT !.user_id = user_id],
                           r.out, r.writes)
        /\ resp' = App(r.out)
        /\ fault' = Met(up, r)
        /\ UNCHANGED <<users, nextId, clock, deleted, lifecycle, procs, service, social, patterns>>

\* PUT /api/users/{user_id} with the store unreachable after up store calls
PutFault(user_id, update_data, up) ==
    LET r == RouteUpdateUserFault(users, user_id, update_data, clock, up)
    IN  /\ Serving
        /\ r.hit
        /\ users' = r.coll
        /\ req' = Handled([Request("put") EXCEPT !.user_id = user_id,
                                                  !.update_data = update_data],
                           r.out, r.writes)
        /\ resp' = App(r.out)
        /\ fault' = Met(up, r)
        /\ UNCHANGED <<nextId, clock, deleted, lifecycle, procs, service, social, patterns>>

\* DELETE /api/users/{user_id} with the store unreachable after up store
\* calls
DeleteFault(user_id, up) ==
    LET r == RouteDeleteUserFault(users, user_id, up)
    IN  /\ Serving
        /\ r.hit
        /\ users' = r.coll
        /\ req' = Handled([Request("delete") EXCEPT !.user_id = user_id],
                           r.out, r.writes)
        /\ resp' = App(r.out)
        /\ fault' = Met(up, r)
        /\ UNCHANGED <<nextId, clock, deleted, lifecycle, procs, service, social, patterns>>

\* GET /api/users?page&limit with the store unreachable after up store
\* calls
ListFault(page, limit, up) ==
    LET r == RouteListUsersFault(users, page, limit, up)
    IN  /\ Serving
        /\ r.hit
        /\ req' = Handled([Request("list") EXCEPT !.page = page,
                                                   !.limit = limit],
                           r.out, r.writes)
        /\ resp' = App(r.out)
        /\ fault' = Met(up, r)
        /\ UNCHANGED <<users, nextId, clock, deleted, lifecycle, procs, service, social, patterns>>

\* patches that keep a record valid
ValidUpdates ==
    {update_data \in UserUpdates :
        \A f \in update_data.fields_set \ {"age"} : update_data[f] # None}

\* records are created over a reachable store; any request may then meet
\* an unreachable one
NextFault ==
    \/ \E user_data \in UserCreates : Create(user_data, 0)
    \/ \E user_data \in UserCreates, up \in Ups : CreateFault(user_data, up)
    \/ \E user_id \in UserIds, up \in Ups : GetFault(user_id, up)
    \/ \E user_id \in UserIds, update_data \in ValidUpdates, up \in Ups :
          PutFault(user_id, update_data, up)
    \/ \E user_id \in UserIds, up \in Ups : DeleteFault(user_id, up)
    \/ \E page \in 1..MaxPage, limit \in 1..MaxLimit, up \in Ups :
          ListFault(page, limit, up)

SpecFault == Init /\ [][NextFault]_vars

\* ------------------------- requests in flight -------------------------
\* A route coroutine runs up to its next await of a store call.  pc names
\* the service call the process is about to make.
InFlight == {q \in Procs : procs[q].pc \notin {"idle", "done"}}

\* the process answered its request
Answered(p, out) ==
    [procs EXCEPT ![p].pc = "done", ![p].resp = App(out)]

\* POST /api/users arrives
BeginCreate(p, user_data) ==
    /\ Serving
    /\ procs[p].pc = "idle"
    /\ procs' = [procs EXCEPT ![p] =
                    [Idle EXCEPT !.pc = "get_user_by_email", !.op = "create",
                                 !.user_data = user_data,
                                 !.with = InFlight]]
    /\ UNCHANGED <<directory, lifecycle, fault, service, social, patterns>>

\* create_user up to the answer of get_user_by_email
LookupEmail(p) ==
    LET existing_user == GetUserByEmail(users, procs[p].user_data.email)
    IN  /\ procs[p].pc = "get_user_by_email"
        /\ procs' =
             IF existing_user.raised # ""
             THEN Answered(p, Raise(existing_user.raised))
             ELSE IF existing_user.user # << >>
             THEN Answered(p, HTTPException(409,
                                  "User with this email already exists"))
             ELSE [procs EXCEPT ![p].pc = "create_user"]
        /\ UNCHANGED <<directory, lifecycle, fault, service, social, patterns>>

\* create_user from user_service.create_user on
InsertUser(p) ==
    LET created == CreateUserIndexed(users, indexes, nextId,
                                     procs[p].user_data, clock, clock)
    IN  /\ procs[p].pc = "create_user"
        /\ nextId <= MaxUsers
        /\ users' = created.coll
        /\ nextId' = IF created.raised = "" THEN nextId + 1 ELSE nextId
        /\ procs' =
             IF created.raised # ""
             THEN Answered(p, Raise(created.raised))
             ELSE Answered(p, [Return(201) EXCEPT !.user = created.user])
        /\ UNCHANGED <<clock, req, resp, deleted, lifecycle, fault, service, social, patterns>>

\* DELETE /api/users/{user_id} arrives
BeginDelete(p, user_id) ==
    /\ Serving
    /\ procs[p].pc = "idle"
    /\ procs' = [procs EXCEPT ![p] =
                    [Idle EXCEPT !.pc = "get_user_by_id", !.op = "delete",
                                 !.user_id = user_id,
                                 !.with = InFlight,
                                 !.existed =
                                    GetUserById(users, user_id).user # << >>]]
    /\ UNCHANGED <<directory, lifecycle, fault, service, social, patterns>>

\* delete_user up to the answer of get_user_by_id
LookupId(p) ==
    LET existing_user == GetUserById(users, procs[p].user_id)
    IN  /\ procs[p].pc = "get_user_by_id"
        /\ procs' =
             IF existing_user.raised # ""
             THEN Answered(p, Raise(existing_user.raised))
             ELSE IF existing_user.user = << >>
             THEN Answered(p, HTTPException(404, "User not found"))
             ELSE [procs EXCEPT ![p].pc = "delete_user"]
        /\ UNCHANGED <<directory, lifecycle, fault, service, social, patterns>>

\* delete_user from user_service.delete_user on
RemoveUser(p) ==
    LET done == DeleteUser(users, procs[p].user_id)
    IN  /\ procs[p].pc = "delete_user"
        /\ users' = done.coll
        /\ procs' =
             IF done.raised # ""
             THEN Answered(p, Raise(done.raised))
             ELSE IF ~done.success
             THEN Answered(p, HTTPException(500, "Failed to delete user"))
             ELSE Answered(p, [Return(200) EXCEPT
                                 !.message = "User deleted successfully"])
        /\ UNCHANGED <<nextId, clock, req, resp, deleted, lifecycle, fault, service, social, patterns>>

\* the response was sent: the process is free for the next request
Finish(p) ==
    /\ procs[p].pc = "done"
    /\ procs' = [q \in Procs |->
                    IF q = p THEN Idle
                    ELSE [procs[q] EXCEPT !.with = @ \ {p}]]
    /\ UNCHANGED <<directory, lifecycle, fault, service, social, patterns>>

\* PUT /api/users/{user_id} arrives
BeginPut(p, user_id, update_data) ==
    /\ Serving
    /\ procs[p].pc = "idle"
    /\ procs' = [procs EXCEPT ![p] =
                    [Idle EXCEPT !.pc = "existing_user", !.op = "put",
                                 !.user_id = user_id,
                                 !.update_data = update_data,
                                 !.with = InFlight]]
    /\ UNCHANGED <<directory, lifecycle, fault, service, social, patterns>>

\* update_user of routers.py up to the answer of get_user_by_id, and on to
\* the next store call of UserService.update_user: the second
\* get_user_by_id for an empty update_dict, else update_one, for which the
\* clock is read before the call is issued
CheckUser(p) ==
    LET existing_user == GetUserById(users, procs[p].user_id)
        update_dict == ModelDumpExcludeUnset(procs[p].update_data)
    IN  /\ procs[p].pc = "existing_user"
        /\ procs' =
             IF existing_user.raised # ""
             THEN Answered(p, Raise(existing_user.raised))
             ELSE IF existing_user.user = << >>
             THEN Answered(p, HTTPException(404, "User not found"))
             ELSE IF DOMAIN update_dict = {}
             THEN [procs EXCEPT ![p].pc = "get_user_by_id_after",
                                ![p].existed = TRUE]
             ELSE [procs EXCEPT ![p].pc = "update_one",
                                ![p].existed = TRUE,
                                ![p].now = clock]
        /\ UNCHANGED <<directory, lifecycle, fault, service, social, patterns>>

\* the store applies update_one; update_user goes on to get_user_by_id if
\* modified_count is positive and returns None otherwise
ApplyUpdate(p) ==
    LET update_dict == ModelDumpExcludeUnset(procs[p].update_data)
        set == [f \in (DOMAIN update_dict) \cup {"updated_at"} |->
                   IF f = "updated_at" THEN procs[p].now ELSE update_dict[f]]
        result == UpdateOne(users, procs[p].user_id, set)
    IN  /\ procs[p].pc = "update_one"
        /\ users' = result.coll
        /\ procs' =
             IF result.modified_count > 0
             THEN [procs EXCEPT ![p].pc = "get_user_by_id_after",
                                ![p].result = <<result.modified_count>>]
             ELSE [Answered(p, HTTPException(500, "Failed to update user"))
                      EXCEPT ![p].result = <<result.modified_count>>]
        /\ UNCHANGED <<nextId, clock, req, resp, deleted, lifecycle, fault, service, social, patterns>>

\* the get_user_by_id that ends update_user, and the route's answer
Reread(p) ==
    LET updated_user == GetUserById(users, procs[p].user_id)
    IN  /\ procs[p].pc = "get_user_by_id_after"
        /\ procs' =
             IF updated_user.raised # ""
             THEN Answered(p, Raise(updated_user.raised))
             ELSE IF updated_user.user = << >>
             THEN Answered(p, HTTPException(500, "Failed to update user"))
             ELSE Answered(p, [Return(200) EXCEPT !.user = updated_user.user])
        /\ UNCHANGED <<directory, lifecycle, fault, service, social, patterns>>

\* GET /api/users?page&limit arrives
BeginList(p, page, limit) ==
    /\ Serving
    /\ procs[p].pc = "idle"
    /\ procs' = [procs EXCEPT ![p] =
                    [Idle EXCEPT !.pc = "list_users", !.op = "list",
                                 !.page = page, !.limit = limit,
                                 !.with = InFlight]]
    /\ UNCHANGED <<directory, lifecycle, fault, service, social, patterns>>

\* list_users of routers.py up to the answer of user_service.list_users
FetchPage(p) ==
    LET skip == (procs[p].page - 1) * procs[p].limit
        listed == ListUsers(users, skip, procs[p].limit)
    IN  /\ procs[p].pc = "list_users"
        /\ procs' =
             IF listed.raised # ""
             THEN Answered(p, Raise(listed.raised))
             ELSE [procs EXCEPT ![p].pc = "count_users",
                                ![p].users = listed.users]
        /\ UNCHANGED <<directory, lifecycle, fault, service, social, patterns>>

\* list_users from user_service.count_users on
CountPage(p) ==
    LET total == CountUsers(users)
        limit == procs[p].limit
    IN  /\ procs[p].pc = "count_users"
        /\ procs' =
             Answered(p, [Return(200) EXCEPT
                            !.users = procs[p].users,
                            !.pagination =
                               [page |-> procs[p].page, limit |-> limit,
                                total |-> total,
                                pages |-> (total + limit - 1) \div limit]])
        /\ UNCHANGED <<directory, lifecycle, fault, service, social, patterns>>

\* the patches sent by the concurrent PUT requests: each keeps a record
\* valid, and the last two set disjoint fields
RaceUpdates ==
    {EmptyUpdate,
     UserUpdate({"status"}, None, None, NoAge, "suspended"),
     UserUpdate({"name"}, "Bob", None, NoAge, None)}

\* serving over a store in which every index was created
InitRace ==
    /\ InitDirectory
    /\ InitServing(0)
    /\ InitOutside

NextRace ==
    \/ \E p \in Procs, user_data \in UserCreates : BeginCreate(p, user_data)
    \/ \E p \in Procs : LookupEmail(p)
    \/ \E p \in Procs : InsertUser(p)
    \/ \E p \in Procs, user_id \in 1..MaxUsers : BeginDelete(p, user_id)
    \/ \E p \in Procs : LookupId(p)
    \/ \E p \in Procs : RemoveUser(p)
    \/ \E p \in Procs : Finish(p)

SpecRace == InitRace /\ [][NextRace]_vars

\* create, update and delete requests in flight while the clock advances
NextRacePut ==
    \/ Tick
    \/ \E p \in Procs, user_data \in UserCreates : BeginCreate(p, user_data)
    \/ \E p \in Procs : LookupEmail(p)
    \/ \E p \in Procs : InsertUser(p)
    \/ \E p \in Procs, user_id \in 1..MaxUsers, update_data \in RaceUpdates :
          BeginPut(p, user_id, update_data)
    \/ \E p \in Procs : CheckUser(p)
    \/ \E p \in Procs : ApplyUpdate(p)
    \/ \E p \in Procs : Reread(p)
    \/ \E p \in Procs, user_id \in 1..MaxUsers : BeginDelete(p, user_id)
    \/ \E p \in Procs : LookupId(p)
    \/ \E p \in Procs : RemoveUser(p)
    \/ \E p \in Procs : Finish(p)

SpecRacePut == InitRace /\ [][NextRacePut]_vars

\* list requests in flight with create and delete requests
NextRaceList ==
    \/ \E p \in Procs, user_data \in UserCreates : BeginCreate(p, user_data)
    \/ \E p \in Procs : LookupEmail(p)
    \/ \E p \in Procs : InsertUser(p)
    \/ \E p \in Procs, user_id \in 1..MaxUsers : BeginDelete(p, user_id)
    \/ \E p \in Procs : LookupId(p)
    \/ \E p \in Procs : RemoveUser(p)
    \/ \E p \in Procs, page \in 1..MaxPage, limit \in 1..MaxLimit :
          BeginList(p, page, limit)
    \/ \E p \in Procs : FetchPage(p)
    \/ \E p \in Procs : CountPage(p)
    \/ \E p \in Procs : Finish(p)

SpecRaceList == InitRace /\ [][NextRaceList]_vars

\* create requests in flight over a store that has no unique index on email
NextRaceCreate ==
    \/ \E p \in Procs, user_data \in UserCreates : BeginCreate(p, user_data)
    \/ \E p \in Procs : LookupEmail(p)
    \/ \E p \in Procs : InsertUser(p)
    \/ \E p \in Procs : Finish(p)

SpecRaceCreate == Init /\ [][NextRaceCreate]_vars

\* ---------------------------- the lifecycle ---------------------------
\* the application constructed, its lifespan not yet entered
InitLifecycle ==
    /\ InitDirectory
    /\ InitOutside
    /\ database = NoConnection
    /\ indexes = {}
    /\ phase = "created"
    /\ startup = NoStartup
    /\ call = Called("", "")

\* lifespan up to its yield: connect_database(), then serve or exit
Startup(client_ok, ping_ok, failing) ==
    LET connected == Connect(database, client_ok, ping_ok, failing)
    IN  /\ phase = "created"
        /\ database' = connected.database
        /\ indexes' = indexes \cup connected.created
        /\ phase' = LifespanStartup(connected)
        /\ startup' = Attempted(client_ok, ping_ok, failing, connected)
        /\ call' = Called("connect_database", connected.raised)
        /\ UNCHANGED <<directory, fault, procs, service, social, patterns>>

\* lifespan after its yield: disconnect_database()
Shutdown ==
    /\ phase = "serving"
    /\ database' = Disconnect(database).database
    /\ call' = Called("disconnect_database", Disconnect(database).raised)
    /\ phase' = IF Disconnect(database).raised = "" THEN "stopped" ELSE "exited"
    /\ UNCHANGED <<indexes, startup, directory, fault, procs, service, social, patterns>>

\* disconnect_database() invoked while the application does not serve:
\* before any connection was opened, or once more after the shutdown
DisconnectDatabase ==
    /\ phase \in {"created", "stopped"}
    /\ database' = Disconnect(database).database
    /\ call' = Called("disconnect_database", Disconnect(database).raised)
    /\ UNCHANGED <<phase, indexes, startup, directory, fault, procs, service, social, patterns>>

NextLifecycle ==
    \/ \E client_ok, ping_ok \in BOOLEAN, failing \in 0..Len(Indexes) :
          Startup(client_ok, ping_ok, failing)
    \/ \E user_data \in UserCreates : Create(user_data, 0)
    \/ \E user_id \in UserIds : Get(user_id)
    \/ Shutdown
    \/ DisconnectDatabase

SpecLifecycle == InitLifecycle /\ [][NextLifecycle]_vars

\* ------------------- the service called directly ---------------------
\* UserService.update_user called with any string as user_id
CallUpdateUser(user_id, update_data) ==
    LET updated == UpdateUser(users, user_id, update_data, clock)
    IN  /\ Serving
        /\ users' = updated.coll
        /\ service' = [NoCall EXCEPT !.fn = "update_user",
                                     !.user_id = user_id,
                                     !.update_data = update_data,
                                     !.raised = updated.raised,
                                     !.user = updated.user,
                                     !.before = users,
                                     !.after = updated.coll]
        /\ UNCHANGED <<nextId, clock, req, resp, deleted, lifecycle, fault,
                       procs, social,
                       patterns>>

\* UserService.delete_user called with any string as user_id
CallDeleteUser(user_id) ==
    LET done == DeleteUser(users, user_id)
    IN  /\ Serving
        /\ users' = done.coll
        /\ service' = [NoCall EXCEPT !.fn = "delete_user",
                                     !.user_id = user_id,
                                     !.raised = done.raised,
                                     !.success = done.success,
                                     !.before = users,
                                     !.after = done.coll]
        /\ UNCHANGED <<nextId, clock, req, resp, deleted, lifecycle, fault,
                       procs, social,
                       patterns>>

\* records come in through POST requests; update_user and delete_user are
\* then called as a caller of the service layer would
NextService ==
    \/ Tick
    \/ \E user_data \in UserCreates : Create(user_data, 0)
    \/ \E user_id \in UserIds, update_data \in ValidUpdates :
          CallUpdateUser(user_id, update_data)
    \/ \E user_id \in UserIds : CallDeleteUser(user_id)

SpecService == Init /\ [][NextService]_vars

\* ---------------------------- the login demo -------------------------
\* the values secrets.token_urlsafe returned so far, and a string it never
\* returned: what a client can present as a state or a token
Presented == 0..minted

\* the states of the callbacks answered 200 so far
Consumed == {past.succeeded[i] : i \in 1..Len(past.succeeded)}

\* GET /auth/{provider}/url
AuthUrl(provider) ==
    LET r == GetAuthUrl(sessions, provider, minted + 1)
    IN  /\ provider \in CONFIGS => minted < MaxTokens
        /\ sessions' = r.sessions
        /\ minted' = IF provider \in CONFIGS THEN minted + 1 ELSE minted
        /\ answer' = Asked("get_auth_url", provider, 0, r.reply)
        /\ past' = IF provider \in CONFIGS
                   THEN [past EXCEPT !.issued = @ \cup {<<minted + 1, provider>>}]
                   ELSE past
        /\ UNCHANGED <<accounts, flows, directory, lifecycle, fault, procs,
                       service,
                       patterns>>

\* POST /auth/{provider}/callback arrives and runs to its first await
CallbackBegin(c, provider, state) ==
    LET r == CallbackChecks(sessions, provider, state)
    IN  /\ flows[c].pc = "idle"
        /\ flows' = [flows EXCEPT ![c] =
                        [pc |-> IF r.passed THEN "token_url" ELSE "done",
                         provider |-> provider,
                         state |-> state,
                         known |-> state \in DOMAIN sessions,
                         late |-> state \in Consumed,
                         exchanged |-> r.passed,
                         reply |-> r.reply]]
        /\ UNCHANGED <<sessions, accounts, minted, answer, past, directory,
                       lifecycle, fault, procs, service,
                       patterns>>

\* the provider answers the POST to token_url, with or without an
\* access_token; with one, the GET to user_info_url is sent
TokenResponse(c, access_token) ==
    /\ flows[c].pc = "token_url"
    /\ flows' = IF access_token
                THEN [flows EXCEPT ![c].pc = "user_info_url"]
                ELSE [flows EXCEPT ![c].pc = "done",
                                   ![c].reply =
                                      Reply(400, "Failed to get access token")]
    /\ UNCHANGED <<sessions, accounts, minted, answer, past, directory,
                   lifecycle, fault, procs, service,
                       patterns>>

\* the provider answers the GET to user_info_url; handle_callback runs to
\* its end
UserInfoResponse(c, email) ==
    LET r == CallbackFinish(sessions, accounts, flows[c].provider,
                            flows[c].state, email, minted + 1)
    IN  /\ flows[c].pc = "user_info_url"
        /\ email # "" => minted < MaxTokens
        /\ sessions' = r.sessions
        /\ accounts' = r.users
        /\ minted' = IF r.granted THEN minted + 1 ELSE minted
        /\ flows' = [flows EXCEPT ![c].pc = "done", ![c].reply = r.reply]
        /\ past' = [past EXCEPT
                      !.granted = IF r.granted THEN @ \cup {minted + 1} ELSE @,
                      !.succeeded = IF r.reply.status_code = 200
                                    THEN Append(@, flows[c].state) ELSE @,
                      !.returned = IF r.reply.status_code = 200
                                   THEN @ \cup {<<r.reply.access_token,
                                                   r.reply.user[1].id>>}
                                   ELSE @]
        /\ UNCHANGED <<answer, directory, lifecycle, fault, procs, service, patterns>>

\* the response of a callback was sent
CallbackEnd(c) ==
    /\ flows[c].pc = "done"
    /\ flows' = [flows EXCEPT ![c] = NoFlow]
    /\ UNCHANGED <<sessions, accounts, minted, answer, past, directory,
                   lifecycle, fault, procs, service,
                       patterns>>

\* GET /me
Me(bearer, token) ==
    /\ answer' = Asked("get_current_user", "", token,
                       GetCurrentUser(sessions, accounts, bearer, token))
    /\ UNCHANGED <<sessions, accounts, minted, flows, past, directory,
                   lifecycle, fault, procs, service,
                       patterns>>

\* POST /logout
LogoutRequest(bearer, token) ==
    LET r == Logout(sessions, bearer, token)
    IN  /\ sessions' = r.sessions
        /\ answer' = Asked("logout", "", token, r.reply)
        /\ past' = IF r.reply.status_code = 200
                   THEN [past EXCEPT !.logged_out = @ \cup {token}]
                   ELSE past
        /\ UNCHANGED <<accounts, minted, flows, directory, lifecycle, fault,
                       procs, service,
                       patterns>>

\* the login flow: authorization URLs handed out, callbacks in flight
NextSocial ==
    \/ \E provider \in Providers : AuthUrl(provider)
    \/ \E c \in Flows, provider \in Providers, state \in Presented :
          CallbackBegin(c, provider, state)
    \/ \E c \in Flows, access_token \in BOOLEAN : TokenResponse(c, access_token)
    \/ \E c \in Flows, email \in {"", "ann@x.com"} : UserInfoResponse(c, email)
    \/ \E c \in Flows : CallbackEnd(c)

SpecSocial == Init /\ [][NextSocial]_vars

\* sessions in use: logins one at a time, /me and /logout between them
NextSession ==
    \/ \E provider \in CONFIGS : AuthUrl(provider)
    \/ \E provider \in CONFIGS, state \in Presented :
          CallbackBegin(1, provider, state)
    \/ \E access_token \in BOOLEAN : TokenResponse(1, access_token)
    \/ \E email \in {"", "ann@x.com"} : UserInfoResponse(1, email)
    \/ CallbackEnd(1)
    \/ \E token \in Presented : Me(TRUE, token)
    \/ Me(FALSE, 0)
    \/ \E token \in Presented : LogoutRequest(TRUE, token)
    \/ LogoutRequest(FALSE, 0)

SpecSession == Init /\ [][NextSession]_vars

\* --------------------------- the media players ------------------------
Play(i) ==
    LET r == PlayerPlay(players[i])
    IN  /\ players' = [players EXCEPT ![i] = r.player]
        /\ invoked' = Invoked(i, "play", r.printed)
        /\ UNCHANGED <<heap, prototypes, held, outcome, directory, lifecycle,
                       fault, procs, service, social>>

Pause(i) ==
    LET r == PlayerPause(players[i])
    IN  /\ players' = [players EXCEPT ![i] = r.player]
        /\ invoked' = Invoked(i, "pause", r.printed)
        /\ UNCHANGED <<heap, prototypes, held, outcome, directory, lifecycle,
                       fault, procs, service, social>>

Stop(i) ==
    LET r == PlayerStop(players[i])
    IN  /\ players' = [players EXCEPT ![i] = r.player]
        /\ invoked' = Invoked(i, "stop", r.printed)
        /\ UNCHANGED <<heap, prototypes, held, outcome, directory, lifecycle,
                       fault, procs, service, social>>

SetTrack(i, track_name) ==
    LET r == PlayerSetTrack(players[i], track_name)
    IN  /\ players' = [players EXCEPT ![i] = r.player]
        /\ invoked' = Invoked(i, "set_track", r.printed)
        /\ UNCHANGED <<heap, prototypes, held, outcome, directory, lifecycle,
                       fault, procs, service, social>>

NextPlayer ==
    \/ \E i \in 1..MaxPlayers : Play(i)
    \/ \E i \in 1..MaxPlayers : Pause(i)
    \/ \E i \in 1..MaxPlayers : Stop(i)
    \/ \E i \in 1..MaxPlayers, track_name \in Tracks : SetTrack(i, track_name)

SpecPlayer == Init /\ [][NextPlayer]_vars

\* --------------------------- the NPC prototypes -----------------------
\* npc_manager.create_npc(npc_type); the caller keeps the object returned
CreateNpc(npc_type) ==
    LET r == create_npc(heap, prototypes, npc_type)
    IN  /\ npc_type \in DOMAIN prototypes => Len(heap) < MaxNpcs
        /\ heap' = r.heap
        /\ held' = IF r.raised = "" THEN held \cup {r.npc} ELSE held
        /\ outcome' = Outcome("create_npc", npc_type, 0, 0, r.raised, r.npc,
                              outcome.removed)
        /\ UNCHANGED <<prototypes, players, invoked, directory, lifecycle,
                       fault, procs, service, social>>

\* dragon = Orc("Dragon", 200, 50, 2); dragon.name = "Dragon_Prototype"
NewDragon ==
    /\ Len(heap) < MaxNpcs
    /\ heap' = Append(heap, Orc(<<"Dragon_Prototype">>, 200, 50, 2))
    /\ held' = held \cup {Len(heap) + 1}
    /\ outcome' = Outcome("Orc", "", 0, 0, "", Len(heap) + 1, outcome.removed)
    /\ UNCHANGED <<prototypes, players, invoked, directory, lifecycle,
                   fault, procs, service, social>>

\* npc_manager.add_prototype(npc_type, prototype) with an object the
\* caller holds
AddPrototype(npc_type, prototype) ==
    /\ prototype \in held
    /\ prototypes' = add_prototype(prototypes, npc_type, prototype)
    /\ outcome' = Outcome("add_prototype", npc_type, 0, prototype, "", 0,
                          outcome.removed \ {npc_type})
    /\ UNCHANGED <<heap, held, players, invoked, directory, lifecycle,
                   fault, procs, service, social>>

\* npc_manager.remove_prototype(npc_type)
RemovePrototype(npc_type) ==
    /\ prototypes' = remove_prototype(prototypes, npc_type)
    /\ outcome' = Outcome("remove_prototype", npc_type, 0, 0, "", 0,
                          outcome.removed \cup {npc_type})
    /\ UNCHANGED <<heap, held, players, invoked, directory, lifecycle,
                   fault, procs, service, social>>

NextRegistry ==
    \/ \E npc_type \in NpcTypes : CreateNpc(npc_type)
    \/ NewDragon
    \/ \E npc_type \in NpcTypes, prototype \in 1..MaxNpcs :
           AddPrototype(npc_type, prototype)
    \/ \E npc_type \in NpcTypes : RemovePrototype(npc_type)

SpecRegistry == Init /\ [][NextRegistry]_vars

\* a method of an object the caller holds, called by the caller
NpcCalled(fn, self, target, h) ==
    /\ heap' = h
    /\ outcome' = Outcome(fn, "", self, target, "", 0, outcome.removed)
    /\ UNCHANGED <<prototypes, held, players, invoked, directory, lifecycle,
                   fault, procs, service, social>>

\* npc.move(x, y)
Move(self, place) ==
    /\ self \in held
    /\ NpcCalled("move", self, 0, move(heap, self, place[1], place[2]))

\* npc.take_damage(damage)
TakeDamage(self, damage) ==
    /\ self \in held
    /\ NpcCalled("take_damage", self, 0, take_damage(heap, self, damage))

\* npc.attack(target)
Attack(self, target) ==
    /\ self \in held
    /\ target \in held
    /\ NpcCalled("attack", self, target, attack(heap, self, target))

\* zombie.regenerate()
Regenerate(self) ==
    /\ self \in held
    /\ heap[self].class = "Zombie"
    /\ heap[self].is_alive
         => heap[self].health + heap[self].regeneration <= MaxHealth
    /\ NpcCalled("regenerate", self, 0, regenerate(heap, self))

\* goblin.sneak_attack(target)
SneakAttack(self, target) ==
    /\ self \in held
    /\ target \in held
    /\ heap[self].class = "Goblin"
    /\ NpcCalled("sneak_attack", self, target, sneak_attack(heap, self, target))

\* orc.enter_berserker_rage()
EnterBerserkerRage(self) ==
    /\ self \in held
    /\ heap[self].class = "Orc"
    /\ heap[self].attack_power + heap[self].rage_damage_bonus <= MaxAttack
    /\ NpcCalled("enter_berserker_rage", self, 0,
                 enter_berserker_rage(heap, self))

\* the battle of simulate_game_scenario: clones are made, moved and fight
NextBattle ==
    \/ \E npc_type \in DOMAIN InitialPrototypes : CreateNpc(npc_type)
    \/ \E self \in 1..MaxNpcs, place \in Places : Move(self, place)
    \/ \E self \in 1..MaxNpcs, damage \in Damages : TakeDamage(self, damage)
    \/ \E self \in 1..MaxNpcs, target \in 1..MaxNpcs : Attack(self, target)
    \/ \E self \in 1..MaxNpcs : Regenerate(self)
    \/ \E self \in 1..MaxNpcs, target \in 1..MaxNpcs : SneakAttack(self, target)
    \/ \E self \in 1..MaxNpcs : EnterBerserkerRage(self)

SpecBattle == Init /\ [][NextBattle]_vars

\* ------------------------------- claims -------------------------------
Held(coll, email) == \E i \in 1..Len(coll) : coll[i].email = email

Stored(coll, user_id) == \E i \in 1..Len(coll) : coll[i].id = user_id

\* C1: after any sequence of create, update and delete requests, handled
\* one at a time from an empty store with no unique index in the store, no
\* two stored user records have the same email.
C1_NoTwoRecordsShareEmail ==
    \A i, j \in 1..Len(users) : i # j => users[i].email # users[j].email

\* C2: a create whose email no stored record holds is answered 201 with a
\* record carrying that email, and the record is stored; a create whose
\* email a stored record holds is answered 409 and leaves the store as it
\* was.
C2_CreateOrConflict ==
    [][req'.op = "create" =>
        IF Held(users, req'.user_data.email)
        THEN /\ resp'.status_code = 409
             /\ resp'.user = << >>
             /\ users' = users
        ELSE /\ resp'.status_code = 201
             /\ Len(resp'.user) = 1
             /\ resp'.user[1].email = req'.user_data.email
             /\ Len(users') = Len(users) + 1
             /\ users'[Len(users')] = resp'.user[1]
             /\ SubSeq(users', 1, Len(users)) = users]_vars

C2_Witness ==
    /\ req.op = "create"
    /\ resp.status_code = 409
    /\ Len(users) = 2

\* C3: a getById issued right after a successful create, with the id the
\* create returned, returns a record with the same id, name, email, age and
\* status, and that record's created_at equals its updated_at.
C3_CreateThenGetById ==
    [][(/\ req.op = "create"
        /\ resp.status_code = 201
        /\ req'.op = "get"
        /\ req'.user_id = resp.user[1].id)
       => /\ resp'.status_code = 200
          /\ Len(resp'.user) = 1
          /\ resp'.user[1].id = resp.user[1].id
          /\ resp'.user[1].name = resp.user[1].name
          /\ resp'.user[1].email = resp.user[1].email
          /\ resp'.user[1].age = resp.user[1].age
          /\ resp'.user[1].status = resp.user[1].status
          /\ resp'.user[1].created_at = resp'.user[1].updated_at]_vars

\* the stored document with this id, if User(doc) accepts it: what the
\* routes' existence check (get_user_by_id) finds
Resolves(coll, user_id) ==
    /\ Stored(coll, user_id)
    /\ UserModelOk(FindOne(coll, "id", user_id)[1])

\* C4: once a delete of an id was answered 200, no record carries that id
\* again (the store never hands it out a second time) and every getById
\* of it is answered 404, whatever requests came in between.
C4_DeletedStaysNotFound ==
    \A user_id \in deleted :
        /\ ~Stored(users, user_id)
        /\ user_id < nextId
        /\ (req.op = "get" /\ req.user_id = user_id)
              => (resp.status_code = 404 /\ resp.detail = "User not found")

C4_Witness ==
    /\ req.op = "get"
    /\ req.user_id \in deleted
    /\ resp.status_code = 404
    /\ Len(users) >= 1

\* C5: a PUT whose patch names no field issues no store write and leaves
\* the whole store, updated_at included, as it was; for an id the route's
\* existence check finds it is answered 200 with the stored record, for any
\* other id 404.
C5_EmptyPatchIsNoOp ==
    [][(req'.op = "put" /\ req'.update_data.fields_set = {}) =>
        /\ users' = users
        /\ req'.writes = 0
        /\ IF Resolves(users, req'.user_id)
           THEN /\ resp'.status_code = 200
                /\ resp'.user = FindOne(users, "id", req'.user_id)
           ELSE resp'.status_code = 404]_vars

C5_Witness ==
    /\ req.op = "put"
    /\ req.update_data.fields_set = {}
    /\ resp.status_code = 200
    /\ resp.user[1].updated_at < clock

\* C6 (as amended): a PUT whose patch names only status changes, in the
\* record the existence check finds, only status and updated_at; every
\* other field of it and every other record stay as they were; the new
\* updated_at is the clock value the update read, which is not earlier
\* than the prior updated_at.
C6_StatusPatchFrame ==
    [][(req'.op = "put" /\ req'.update_data.fields_set = {"status"}) =>
        /\ Len(users') = Len(users)
        /\ \A i \in 1..Len(users) :
             IF users[i].id = req'.user_id /\ UserModelOk(users[i])
             THEN /\ users'[i] = [users[i] EXCEPT
                                    !.status = req'.update_data.status,
                                    !.updated_at = clock]
                  /\ users'[i].updated_at >= users[i].updated_at
             ELSE users'[i] = users[i]]_vars

C6_Witness ==
    /\ req.op = "put"
    /\ req.update_data.fields_set = {"status"}
    /\ resp.status_code = 200
    /\ resp.user[1].status = "suspended"
    /\ resp.user[1].updated_at > resp.user[1].created_at

\* C6 (as claimed): the same, with the new updated_at strictly later than
\* the prior updated_at.
C6_StrictlyLater ==
    [][(req'.op = "put" /\ req'.update_data.fields_set = {"status"}) =>
        /\ Len(users') = Len(users)
        /\ \A i \in 1..Len(users) :
             IF users[i].id = req'.user_id /\ UserModelOk(users[i])
             THEN /\ users'[i] = [users[i] EXCEPT
                                    !.status = req'.update_data.status,
                                    !.updated_at = clock]
                  /\ users'[i].updated_at > users[i].updated_at
             ELSE users'[i] = users[i]]_vars

C8_MalformedIdNotFound ==
    [][(req'.op = "get" /\ ~ObjectIdOk(req'.user_id)) =>
        /\ GetUserById(users, req'.user_id) = [raised |-> "", user |-> << >>]
        /\ req'.ended = "http"
        /\ resp'.status_code = 404
        /\ resp'.detail = "User not found"
        /\ resp'.exc = ""
        /\ users' = users]_vars

C8_Witness ==
    /\ req.op = "get"
    /\ ~ObjectIdOk(req.user_id)
    /\ resp.status_code = 404
    /\ Len(users) >= 1

\* C9: when the ping fails health_check returns unhealthy / disconnected
\* without raising and GET /health is answered 503; when it succeeds,
\* healthy / connected and 200.
C9_HealthReflectsProbe ==
    req.op = "health" =>
        IF req.ping_ok
        THEN /\ resp.status_code = 200
             /\ resp.status = "healthy"
             /\ resp.database = "connected"
        ELSE /\ req.ended = "http"
             /\ resp.status_code = 503

\* C10: an exception that leaves a route handler unhandled (anything but
\* the HTTPException the routing layer answers itself) is caught by
\* ErrorHandlingMiddleware and answered 500 with {error: "Internal server
\* error", detail: "An unexpected error occurred"}; no request ends with
\* an exception propagating out of the middleware stack.
C10_FaultContained ==
    /\ resp.exc = ""
    /\ req.ended = "raise" =>
          /\ resp.by = "ErrorHandlingMiddleware"
          /\ resp.status_code = 500
          /\ resp.error = "Internal server error"
          /\ resp.detail = "An unexpected error occurred"
    /\ req.ended \in {"return", "http"} => resp.by # "ErrorHandlingMiddleware"

C10_Witness ==
    /\ req.op = "create"
    /\ req.ended = "raise"
    /\ req.exc = "ValidationError"
    /\ resp.status_code = 500

\* C11: every response with a 5xx status carries the envelope {error:
\* "Internal server error", detail: "An unexpected error occurred"} and no
\* other detail, the 500 of the update and delete routes and the 503 of
\* the health route included.
C11_UniformEnvelope ==
    resp.status_code >= 500 =>
        /\ resp.error = "Internal server error"
        /\ resp.detail = "An unexpected error occurred"

\* C12: whenever the logging stage recorded the start of a request, the
\* log of that request holds, after the start entry, a "Request completed"
\* entry carrying the status code of the response the caller received.
C12_StartedThenCompleted ==
    \A i \in 1..Len(resp.log) :
        resp.log[i].event = "Request started" =>
            \E j \in (i + 1)..Len(resp.log) :
                /\ resp.log[j].event = "Request completed"
                /\ resp.log[j].status_code = resp.status_code

\* C14: every stored user record satisfies the record constraints of
\* UserBase: name a string of length 1..100, email a non-null email, age
\* null or in 0..150, status one of active, inactive, suspended.
C14_StoredRecordsValid ==
    \A i \in 1..Len(users) : UserModelOk(users[i])

C13_FailedStartupNeverServes ==
    (startup.attempted /\ ~(startup.client_ok /\ startup.ping_ok)) =>
        /\ startup.raised # ""
        /\ phase = "exited"
        /\ req.op = "none"
        /\ call = Called("connect_database", startup.raised)

C13_Witness ==
    /\ phase = "exited"
    /\ startup.client_ok
    /\ ~startup.ping_ok
    /\ database.db # None

\* C19: an invocation of disconnect raises nothing; with no connection
\* ever opened it leaves the connection manager as it was; right after
\* another invocation it leaves the manager as that one left it; and one
\* more invocation would change nothing.
C19_DisconnectIdempotent ==
    [][call'.fn = "disconnect_database" =>
        /\ call'.raised = ""
        /\ database.client = None => database' = database
        /\ call.fn = "disconnect_database" => database' = database
        /\ Disconnect(database').database = database']_vars

C19_Witness ==
    /\ call.fn = "disconnect_database"
    /\ phase = "created"
    /\ database = NoConnection

\* C20: a startup whose client construction and ping succeeded and in
\* which a create_index call raised ends with connect raising nothing,
\* the failure logged as a warning, the indexes before the failing call
\* created, and the application serving.
C20_IndexFailureDoesNotAbort ==
    [][(/\ phase = "created"
        /\ startup'.attempted
        /\ startup'.client_ok
        /\ startup'.ping_ok
        /\ startup'.failing \in 1..Len(Indexes))
       => /\ startup'.raised = ""
          /\ startup'.warned
          /\ phase' = "serving"
          /\ database'.db # None
          /\ indexes' = {Indexes[i] : i \in 1..(startup'.failing - 1)}]_vars

C20_Witness ==
    /\ phase = "serving"
    /\ startup.failing = 1
    /\ startup.warned
    /\ indexes = {}
    /\ req.op = "create"
    /\ resp.status_code = 201

\* C16: a request that met an unreachable store at one of its store calls
\* is answered 500; the request attempted that call once and no store call
\* after it.
C16_StoreFaultIs500 ==
    fault.hit =>
        /\ resp.status_code = 500
        /\ fault.calls = fault.up + 1

\* the process has answered a request of this kind
Done(p, op) == procs[p].pc = "done" /\ procs[p].op = op

\* the two processes' requests were in flight at the same time
Overlapped(p, q) == q \in procs[p].with \/ p \in procs[q].with

\* C17: with the unique index on email in force, two create requests with
\* the same email that were in flight at the same time are each answered
\* 201 or 409, never 500, and not both 201.
C17_ConcurrentCreates ==
    \A p, q \in Procs :
        (/\ p # q
         /\ Done(p, "create")
         /\ Done(q, "create")
         /\ procs[p].user_data.email = procs[q].user_data.email
         /\ Overlapped(p, q))
        => /\ procs[p].resp.status_code \in {201, 409}
           /\ procs[q].resp.status_code \in {201, 409}
           /\ ~(procs[p].resp.status_code = 201
                /\ procs[q].resp.status_code = 201)

\* C18: two DELETE requests on the same id, a record stored when each
\* arrived, that were in flight at the same time are answered 200 the one
\* and 404 the other; no DELETE request is answered 500.
C18_ConcurrentDeletes ==
    /\ \A p \in Procs :
          Done(p, "delete") => procs[p].resp.status_code # 500
    /\ \A p, q \in Procs :
          (/\ p # q
           /\ Done(p, "delete")
           /\ Done(q, "delete")
           /\ procs[p].user_id = procs[q].user_id
           /\ procs[p].existed
           /\ procs[q].existed
           /\ Overlapped(p, q))
          => {procs[p].resp.status_code, procs[q].resp.status_code}
                = {200, 404}

\* C21: over one store, a list request for page p and limit l is answered
\* with exactly the records at insertion-order positions (p-1)*l+1 up to
\* min(p*l, total), in that order; the pages 1..pages together hold every
\* stored record exactly once, and every page beyond pages is empty.
C21_PageWindow ==
    /\ (req.op = "list" /\ users # << >>) =>
          /\ resp.status_code = 200
          /\ resp.users =
                SubSeq(users, (req.page - 1) * req.limit + 1,
                       IF req.page * req.limit < Len(users)
                       THEN req.page * req.limit ELSE Len(users))
    /\ \A limit \in 1..MaxLimit :
          LET pages == (Len(users) + limit - 1) \div limit
              listed(page) == RouteListUsers(users, page, limit)
          IN  /\ \A page \in 1..(pages + 2) :
                    /\ listed(page).kind = "return"
                    /\ listed(page).pagination.pages = pages
                    /\ page > pages => listed(page).users = << >>
              /\ \A i \in 1..Len(users) :
                    Cardinality({pk \in (1..pages) \X (1..limit) :
                                    /\ pk[2] <= Len(listed(pk[1]).users)
                                    /\ listed(pk[1]).users[pk[2]] = users[i]})
                       = 1

\* C22: the existence check and the insert of a create are two store
\* calls.  Over a store without the unique index on email, two create
\* requests with the same email that both passed get_user_by_email (neither
\* is answered 409) are both answered 201, and two records with that email
\* are stored.
C22_CheckThenInsertNotAtomic ==
    \A p, q \in Procs :
        (/\ p # q
         /\ Indexes[1] \notin indexes
         /\ Done(p, "create")
         /\ Done(q, "create")
         /\ procs[p].user_data.email = procs[q].user_data.email
         /\ procs[p].resp.status_code # 409
         /\ procs[q].resp.status_code # 409)
        => /\ procs[p].resp.status_code = 201
           /\ procs[q].resp.status_code = 201
           /\ Overlapped(p, q)
           /\ Cardinality(Positions(users, "email",
                                    procs[p].user_data.email)) = 2

\* both requests were answered 201 and the store holds the email twice
C22_Witness ==
    /\ Indexes[1] \notin indexes
    /\ Done(1, "create")
    /\ Done(2, "create")
    /\ Overlapped(1, 2)
    /\ procs[1].resp.status_code = 201
    /\ procs[2].resp.status_code = 201
    /\ Len(users) = 2
    /\ users[1].email = users[2].email

\* C23: a PUT request is answered 500 only if the pre-check found the
\* record and its update_one reported modified_count 0; a PUT whose
\* update_one modified the record is answered 200 with the updated record,
\* whatever DELETE requests are in flight with it.
C23_PutFaultOnlyIfUnmodified ==
    \A p \in Procs :
        Done(p, "put") =>
            /\ procs[p].resp.status_code = 500 =>
                  /\ procs[p].existed
                  /\ procs[p].result = <<0>>
            /\ procs[p].result = <<1>> =>
                  /\ procs[p].resp.status_code = 200
                  /\ Len(procs[p].resp.user) = 1
                  /\ procs[p].resp.user[1].id = procs[p].user_id
                  /\ \A f \in procs[p].update_data.fields_set :
                        procs[p].resp.user[1][f] = procs[p].update_data[f]

\* C24: an update_one of a PUT request rewrites, in the one record it
\* matches, the fields its patch sets and updated_at, and nothing else in
\* the store; so once two PUT requests on one existing record that were in
\* flight together and whose patches set disjoint fields are both answered,
\* the stored record carries the values of both patches.
C24_DisjointPatchesBothApply ==
    [][/\ \A p \in Procs :
             (procs[p].pc = "update_one" /\ procs'[p].pc # "update_one") =>
                 /\ Len(users') = Len(users)
                 /\ \A i \in 1..Len(users) :
                       \A f \in DOMAIN users[i] :
                           IF /\ users[i].id = procs[p].user_id
                              /\ f \in procs[p].update_data.fields_set
                           THEN users'[i][f] = procs[p].update_data[f]
                           ELSE f # "updated_at" => users'[i][f] = users[i][f]
       /\ \A p, q \in Procs :
             (/\ p # q
              /\ procs'[p].pc = "done" /\ procs'[p].op = "put"
              /\ procs'[q].pc = "done" /\ procs'[q].op = "put"
              /\ procs'[p].user_id = procs'[q].user_id
              /\ procs'[p].existed
              /\ procs'[q].existed
              /\ q \in procs'[p].with \/ p \in procs'[q].with
              /\ procs'[p].update_data.fields_set # {}
              /\ procs'[q].update_data.fields_set # {}
              /\ procs'[p].update_data.fields_set
                    \cap procs'[q].update_data.fields_set = {})
             => \E i \in 1..Len(users') :
                   /\ users'[i].id = procs'[p].user_id
                   /\ \A f \in procs'[p].update_data.fields_set :
                         users'[i][f] = procs'[p].update_data[f]
                   /\ \A f \in procs'[q].update_data.fields_set :
                         users'[i][f] = procs'[q].update_data[f]]_vars

\* a name patch and a status patch on one record, in flight together, were
\* both answered and the record carries both values
C24_Witness ==
    /\ Done(1, "put")
    /\ Done(2, "put")
    /\ Overlapped(1, 2)
    /\ procs[1].user_id = procs[2].user_id
    /\ procs[1].update_data.fields_set = {"name"}
    /\ procs[2].update_data.fields_set = {"status"}
    /\ procs[1].result = <<1>>
    /\ procs[2].result = <<1>>
    /\ \E i \in 1..Len(users) :
          /\ users[i].id = procs[1].user_id
          /\ users[i].name = "Bob"
          /\ users[i].status = "suspended"

\* C25: UserService.update_user with a non-empty patch and
\* UserService.delete_user, called with an id under which the store holds
\* no record - a well-formed id or a string that is no ObjectId - return
\* None and False without raising, and leave the store as it was.
C25_UnresolvedIdIsNotFound ==
    (/\ service.fn \in {"update_user", "delete_user"}
     /\ ~Stored(service.before, service.user_id)
     /\ service.fn = "update_user" =>
           service.update_data.fields_set # {})
    => /\ service.raised = ""
       /\ service.user = << >>
       /\ ~service.success
       /\ service.after = service.before

\* C26: every 200 response to a list request returns no more users than
\* its pagination.total, and returns users only for a page within
\* pagination.pages, whatever create and delete requests were in flight
\* between its page fetch and its count.
C26_PageWithinCount ==
    \A p \in Procs :
        (Done(p, "list") /\ procs[p].resp.status_code = 200) =>
            /\ Len(procs[p].resp.users) <= procs[p].resp.pagination.total
            /\ procs[p].resp.users # << >> =>
                  procs[p].page <= procs[p].resp.pagination.pages

\* C27: in no step does the updated_at of a stored record decrease, and
\* no stored record has an updated_at earlier than its created_at,
\* whatever PUT requests on the record are in flight together.
C27_UpdatedAtMonotone ==
    [][/\ \A i \in 1..Len(users) : \A j \in 1..Len(users') :
             users'[j].id = users[i].id =>
                 users'[j].updated_at >= users[i].updated_at
       /\ \A j \in 1..Len(users') :
             users'[j].updated_at >= users'[j].created_at]_vars

\* C28: handle_callback for a provider of CONFIGS, called with a state
\* that is not in sessions, is answered 400 "Invalid state" and sends no
\* token request; so is every callback that arrives with a state after a
\* callback with that state was answered 200; no state is the state of two
\* callbacks answered 200.
C28_StateConsumedOnce ==
    /\ \A c \in Flows :
          (/\ flows[c].pc # "idle"
           /\ flows[c].provider \in CONFIGS
           /\ ~flows[c].known \/ flows[c].late)
          => /\ flows[c].pc = "done"
             /\ flows[c].reply = Reply(400, "Invalid state")
             /\ ~flows[c].exchanged
    /\ \A s \in Consumed : s \notin DOMAIN sessions
    /\ \A i, j \in 1..Len(past.succeeded) :
          past.succeeded[i] = past.succeeded[j] => i = j

\* a callback that arrived with a state already consumed was rejected
C28_Witness ==
    \E c \in Flows :
        /\ flows[c].late
        /\ flows[c].provider \in CONFIGS
        /\ flows[c].state \in Consumed
        /\ <<flows[c].state, flows[c].provider>> \in past.issued
        /\ flows[c].reply = Reply(400, "Invalid state")

\* C28 as stated, for any provider: every callback with a state that is
\* not in sessions is answered 400 "Invalid state".
C28_AnyProvider ==
    \A c \in Flows :
        (flows[c].pc # "idle" /\ ~flows[c].known)
        => flows[c].reply = Reply(400, "Invalid state")

\* C29: a token logout was called with is not in sessions afterwards, and
\* every /me request that bears it is answered 401, whatever auth-url,
\* callback and logout requests were handled in between.
C29_LoggedOutStays401 ==
    /\ \A t \in past.logged_out :
          /\ t \notin DOMAIN sessions
          /\ GetCurrentUser(sessions, accounts, TRUE, t).status_code = 401
    /\ (answer.op = "get_current_user" /\ answer.token \in past.logged_out)
          => answer.reply.status_code = 401

\* /me with a session token a callback had returned, after its logout
C29_Witness ==
    /\ answer.op = "get_current_user"
    /\ answer.token \in past.granted
    /\ answer.token \in past.logged_out
    /\ answer.reply = Reply(401, "Invalid token")
    /\ DOMAIN accounts # {}

\* C30: a callback for provider P gets past the state check only with a
\* state get_auth_url issued for P that no callback answered 200 has
\* consumed, and the session tokens stored by callbacks stay in sessions
\* until a logout with them.
C30_StateBoundToProvider ==
    /\ \A c \in Flows :
          flows[c].exchanged =>
              /\ <<flows[c].state, flows[c].provider>> \in past.issued
              /\ ~flows[c].late
    /\ \A t \in past.granted \ past.logged_out : t \in DOMAIN sessions

\* C31: /me is answered with a user record only for a bearer value that a
\* callback answered 200 returned as access_token and that no logout was
\* called with since, the record being the one of the user that callback
\* returned; a state that is pending in sessions is answered 401.
C31_MeOnlyForIssuedTokens ==
    /\ (answer.op = "get_current_user" /\ answer.reply.status_code = 200)
          => /\ answer.token \notin past.logged_out
             /\ \E issue \in past.returned :
                   /\ issue[1] = answer.token
                   /\ answer.reply.user[1].id = issue[2]
    /\ \A issue \in past.issued :
          (issue[1] \in DOMAIN sessions /\ issue[1] \notin past.granted)
             => GetCurrentUser(sessions, accounts, TRUE, issue[1]).status_code
                   = 401

\* C32: a MediaPlayer starts in Stopped and is always in one of Stopped,
\* Playing, Paused.  play takes Stopped and Paused to Playing and leaves
\* Playing; pause takes Playing to Paused and leaves Stopped and Paused;
\* stop takes Playing and Paused to Stopped and leaves Stopped; set_track
\* leaves the state; a call on one player leaves the others as they were.
\* Hence Paused is entered only from Playing.
C32_PlayerTransitions ==
    /\ \A i \in 1..MaxPlayers : players[i].current_state = "StoppedState"
    /\ [][/\ \A i \in 1..MaxPlayers :
                /\ players'[i].current_state \in States
                /\ (players'[i].current_state = "PausedState"
                      /\ players[i].current_state # "PausedState")
                      => players[i].current_state = "PlayingState"
                /\ i # invoked'.player => players'[i] = players[i]
          /\ LET before == players[invoked'.player].current_state
                 after == players'[invoked'.player].current_state
             IN  /\ invoked'.method = "play" => after = "PlayingState"
                 /\ invoked'.method = "pause" =>
                       after = IF before = "PlayingState" THEN "PausedState"
                               ELSE before
                 /\ invoked'.method = "stop" => after = "StoppedState"
                 /\ invoked'.method = "set_track" => after = before]_vars

\* a player was paused while it played, the other one still stopped
C32_Witness ==
    /\ invoked.method = "pause"
    /\ invoked.printed = <<"Pausing...", "State changed to: PausedState">>
    /\ players[invoked.player].current_state = "PausedState"
    /\ \E i \in 1..MaxPlayers : players[i].current_state = "StoppedState"

\* C33: create_npc of a type that is not in the registry raises ValueError
\* and changes neither the registry nor any object; from remove_prototype(t)
\* until the next add_prototype(t, p), create_npc(t) raises;
\* remove_prototype of a type that is not in the registry changes nothing;
\* and no create_npc, raising or not, changes the registry.
C33_UnknownTypeRaises ==
    [][/\ outcome'.fn = "create_npc"
            => /\ prototypes' = prototypes
               /\ outcome'.npc_type \notin DOMAIN prototypes
                    => /\ outcome'.raised = "ValueError"
                       /\ heap' = heap
                       /\ held' = held
               /\ outcome'.npc_type \in outcome.removed
                    => outcome'.raised = "ValueError"
       /\ (outcome'.fn = "remove_prototype"
             /\ outcome'.npc_type \notin DOMAIN prototypes)
            => /\ prototypes' = prototypes
               /\ heap' = heap]_vars

\* create_npc of a type of the initial registry raised after the type was
\* removed, while another type was added at run time
C33_Witness ==
    /\ outcome.fn = "create_npc"
    /\ outcome.raised = "ValueError"
    /\ outcome.npc_type \in outcome.removed
    /\ outcome.npc_type \in DOMAIN InitialPrototypes
    /\ "dragon" \in DOMAIN prototypes

C35_HealthAndDeath ==
    /\ \A o \in DOMAIN heap :
           heap[o].health >= 0 /\ (~heap[o].is_alive <=> heap[o].health = 0)
    /\ [][/\ \A o \in DOMAIN heap' :
                 /\ heap'[o].health >= 0
                 /\ ~heap'[o].is_alive <=> heap'[o].health = 0
          /\ \A o \in DOMAIN heap :
                 ~heap[o].is_alive
                   => ~heap'[o].is_alive /\ heap'[o].health = 0
          /\ (outcome'.fn \in {"attack", "sneak_attack"}
                /\ (~heap[outcome'.self].is_alive
                      \/ ~heap[outcome'.target].is_alive))
               => \A o \in DOMAIN heap : heap'[o].health = heap[o].health]_vars

\* a dead goblin has called sneak_attack on a living NPC that was damaged
\* before
C35_Witness ==
    /\ outcome.fn = "sneak_attack"
    /\ ~heap[outcome.self].is_alive
    /\ heap[outcome.self].health = 0
    /\ heap[outcome.target].is_alive
    /\ heap[outcome.target].health < 80

====
